---- MODULE Spec2Model ----
(***************************************************************************)
(* Model of the batch / array / scalar / data-type codec of                *)
(* native-engine/datafusion-ext-commons/src/io/batch_serde.rs.             *)
(*                                                                         *)
(* Buffers are sequences of bytes (0..255).  A sink is the byte sequence   *)
(* written so far; a source is a byte sequence with a read position.       *)
(* Every write_* operator returns [err, out]: the error kind ("" for Ok)   *)
(* and the bytes handed to the output before it returned.  Every read_*    *)
(* operator returns [err, val, pos]: the error kind, the decoded value and *)
(* the number of bytes of the input consumed so far.                       *)
(***************************************************************************)
EXTENDS Integers, Sequences, FiniteSets, TLC

\* ------------------------------------------------------------------ bounds
\* physical rows of a column built for a batch
MaxRows == 2
\* elements of one list / map row
MaxItems == 2
\* write_batch calls on one sink
MaxRecords == 2
\* write_batch calls that run at the same time
MaxCalls == 2
\* calls on one ShuffleWriterExec
MaxExecutes == 2
\* the largest partition count of a partitioning
MaxPartitions == 2

\* ------------------------------------------------------- byte-level helpers
Min(a, b) == IF a < b THEN a ELSE b

RECURSIVE Pow2(_)
Pow2(n) == IF n = 0 THEN 1 ELSE 2 * Pow2(n - 1)

RECURSIVE Concat(_)
\* the concatenation of a sequence of byte sequences
Concat(ss) == IF ss = <<>> THEN <<>> ELSE Head(ss) \o Concat(Tail(ss))

\* s[from+1 .. from+n], 0-based start
Bytes(s, from, n) == SubSeq(s, from + 1, from + n)

Zeros(n) == [i \in 1..n |-> 0]

\* results of the write_* operators
WOk(out) == [err |-> "", out |-> out]
\* a fault of the error arms: the value is skipped and the call returns Ok
WSkipped(kind, out) == WOk(out)
WErr(kind, out) == [err |-> kind, out |-> out]
\* `a` then `b` on the same output: `?` returns at the first error, the bytes
\* written before it stay in the output
WThen(a, b) == IF a.err # "" THEN a ELSE [err |-> b.err, out |-> a.out \o b.out]

\* results of the read_* operators
ROk(val, pos) == [err |-> "", val |-> val, pos |-> pos]
RErr(kind, val, pos) == [err |-> kind, val |-> val, pos |-> pos]

\* crate::io::write_u8 / read_u8
write_u8(b) == WOk(<<b % 256>>)

read_u8(inp, pos) ==
    IF pos + 1 > Len(inp) THEN RErr("IoError", 0, pos) ELSE ROk(inp[pos + 1], pos + 1)

RECURSIVE LenBytes(_)
\* crate::io::write_len: variable-width unsigned integer, 7 bits per byte,
\* least significant group first, the high bit set on every byte but the last
LenBytes(n) == IF n < 128 THEN <<n>> ELSE <<128 + (n % 128)>> \o LenBytes(n \div 128)

write_len(n) == WOk(LenBytes(n))

RECURSIVE read_len_from(_, _, _, _)
read_len_from(inp, pos, acc, mul) ==
    IF pos + 1 > Len(inp) THEN RErr("IoError", 0, pos)
    ELSE LET b == inp[pos + 1] IN
         IF b < 128 THEN ROk(acc + b * mul, pos + 1)
         ELSE read_len_from(inp, pos + 1, acc + (b - 128) * mul, mul * 128)

\* crate::io::read_len
read_len(inp, pos) == read_len_from(inp, pos, 0, 1)

\* crate::io::read_bytes_slice: exactly n bytes or an error
read_bytes_slice(inp, pos, n) ==
    IF pos + n > Len(inp) THEN RErr("IoError", <<>>, pos)
    ELSE ROk(Bytes(inp, pos, n), pos + n)

\* ------------------------------------------------------------------ bitmaps
\* arrow::util::bit_util::get_bit_raw: bit i of a byte buffer, LSB first
get_bit(buf, i) == (buf[(i \div 8) + 1] \div Pow2(i % 8)) % 2 = 1

RECURSIVE BitsValue(_, _, _)
\* the byte whose bit j (j < n) is bits[from + j]
BitsValue(bits, from, n) ==
    IF n = 0 THEN 0
    ELSE (IF bits[from + n] THEN Pow2(n - 1) ELSE 0) + BitsValue(bits, from, n - 1)

\* a sequence of booleans packed 8 per byte, LSB first, zero padded
PackBits(bits) ==
    [k \in 1..((Len(bits) + 7) \div 8) |->
        BitsValue(bits, 8 * (k - 1), Min(8, Len(bits) - 8 * (k - 1)))]

\* a fault of write_bits_buffer: the bits are taken from bit 0 of the source
write_bits_buffer_from_bit_zero(buffer, bits_offset, bits_len) ==
    WOk(PackBits([i \in 1..bits_len |-> get_bit(buffer, i - 1)]))

\* write_bits_buffer: a zeroed buffer of ceil(bits_len / 8) bytes in which bit i
\* is set when bit bits_offset + i of the source is set
write_bits_buffer(buffer, bits_offset, bits_len) ==
    WOk(PackBits([i \in 1..bits_len |-> get_bit(buffer, bits_offset + i - 1)]))

\* read_bits_buffer
read_bits_buffer(inp, pos, bits_len) == read_bytes_slice(inp, pos, (bits_len + 7) \div 8)

\* --------------------------------------------------------------- data types
\* arrow DataType: kind k plus the parameters of the kinds that have some.
\* tz is an Option: <<>> for None, <<name>> for Some(name).  A Field is
\* [name, data_type, nullable]; names are byte strings.
DataType(k, fields, precision, scale, unit, tz, sorted) ==
    [k |-> k, fields |-> fields, precision |-> precision, scale |-> scale,
     unit |-> unit, tz |-> tz, sorted |-> sorted]

Leaf(k) == DataType(k, <<>>, 0, 0, "", <<>>, FALSE)
Decimal128(p, s) == DataType("Decimal128", <<>>, p, s, "", <<>>, FALSE)
Timestamp(unit, tz) == DataType("Timestamp", <<>>, 0, 0, unit, tz, FALSE)
Interval(unit) == DataType("Interval", <<>>, 0, 0, unit, <<>>, FALSE)
FixedSizeBinary(n) == DataType("FixedSizeBinary", <<>>, n, 0, "", <<>>, FALSE)
List(field) == DataType("List", <<field>>, 0, 0, "", <<>>, FALSE)
LargeList(field) == DataType("LargeList", <<field>>, 0, 0, "", <<>>, FALSE)
Map(field, sorted) == DataType("Map", <<field>>, 0, 0, "", <<>>, sorted)
Struct(fields) == DataType("Struct", fields, 0, 0, "", <<>>, FALSE)

Field(name, data_type, nullable) ==
    [name |-> name, data_type |-> data_type, nullable |-> nullable]

\* the fixed-width primitive kinds of write_array / read_array and the byte
\* width PT::get_byte_width() of each
PrimitiveKinds ==
    {"Int8", "Int16", "Int32", "Int64", "UInt8", "UInt16", "UInt32", "UInt64",
     "Float32", "Float64", "Decimal128", "Date32", "Date64", "Timestamp"}

ByteWidth(k) ==
    CASE k \in {"Int8", "UInt8"} -> 1
      [] k \in {"Int16", "UInt16"} -> 2
      [] k \in {"Int32", "UInt32", "Float32", "Date32"} -> 4
      [] k \in {"Int64", "UInt64", "Float64", "Date64", "Timestamp"} -> 8
      [] k = "Decimal128" -> 16
      [] OTHER -> 0

\* the kinds write_array and read_array have a branch for
ArrayKinds == PrimitiveKinds \cup {"Null", "Boolean", "Utf8", "Binary", "List", "Map", "Struct"}

RECURSIVE nameless_data_type(_)
\* a fault of nameless_field: the name is kept
nameless_field_keeping_name(field) ==
    Field(field.name, nameless_data_type(field.data_type), field.nullable)

\* nameless_field: the field with the empty name and a name-stripped type
nameless_field(field) == Field(<<>>, nameless_data_type(field.data_type), field.nullable)

\* nameless_data_type: List, Map and Struct rewrite their child fields, every
\* other type is cloned as it is
nameless_data_type(data_type) ==
    CASE data_type.k = "List" -> List(nameless_field(data_type.fields[1]))
      [] data_type.k = "Map" -> Map(nameless_field(data_type.fields[1]), data_type.sorted)
      [] data_type.k = "Struct" ->
            Struct([i \in 1..Len(data_type.fields) |-> nameless_field(data_type.fields[i])])
      [] OTHER -> data_type

\* ---- the type-tree serializer (postcard over the serde form of DataType) ----
\* variant index of each kind in arrow_schema::DataType
KindTags ==
    [Null |-> 0, Boolean |-> 1, Int8 |-> 2, Int16 |-> 3, Int32 |-> 4, Int64 |-> 5,
     UInt8 |-> 6, UInt16 |-> 7, UInt32 |-> 8, UInt64 |-> 9, Float32 |-> 11,
     Float64 |-> 12, Timestamp |-> 13, Date32 |-> 14, Date64 |-> 15, Interval |-> 19,
     Binary |-> 20, FixedSizeBinary |-> 21, Utf8 |-> 23, List |-> 25, LargeList |-> 27,
     Struct |-> 28, Decimal128 |-> 31, Map |-> 33]

Kinds == DOMAIN KindTags

TimeUnits == <<"Second", "Millisecond", "Microsecond", "Nanosecond">>
IntervalUnits == <<"YearMonth", "DayTime", "MonthDayNano">>

IndexOf(seq, x) == CHOOSE i \in 1..Len(seq) : seq[i] = x

BoolByte(b) == IF b THEN 1 ELSE 0

\* a string: its byte length, then its bytes
StrBytes(name) == LenBytes(Len(name)) \o name

RECURSIVE to_allocvec(_)
\* a Field: name, data type, nullable, then dict_id, dict_is_ordered and the
\* (empty) metadata map
FieldBytes(field) ==
    StrBytes(field.name) \o to_allocvec(field.data_type)
        \o <<BoolByte(field.nullable)>> \o <<0, 0, 0>>

\* postcard::to_allocvec of a DataType
to_allocvec(t) ==
    <<KindTags[t.k]>> \o
    CASE t.k = "Timestamp" ->
            <<IndexOf(TimeUnits, t.unit) - 1>> \o
            (IF t.tz = <<>> THEN <<0>> ELSE <<1>> \o StrBytes(t.tz[1]))
      [] t.k = "Interval" -> <<IndexOf(IntervalUnits, t.unit) - 1>>
      [] t.k = "FixedSizeBinary" -> LenBytes(2 * t.precision)
      [] t.k = "Decimal128" -> <<t.precision, t.scale % 256>>
      [] t.k \in {"List", "LargeList"} -> FieldBytes(t.fields[1])
      [] t.k = "Map" -> FieldBytes(t.fields[1]) \o <<BoolByte(t.sorted)>>
      [] t.k = "Struct" ->
            LenBytes(Len(t.fields)) \o Concat([i \in 1..Len(t.fields) |-> FieldBytes(t.fields[i])])
      [] OTHER -> <<>>

\* reading a string
read_str(buf, pos) ==
    LET got_len(n) ==
            IF n.err # "" \/ n.pos + n.val > Len(buf) THEN RErr("Execution", <<>>, n.pos)
            ELSE ROk(Bytes(buf, n.pos, n.val), n.pos + n.val)
    IN got_len(read_len(buf, pos))

RECURSIVE from_bytes_at(_, _)
RECURSIVE read_fields(_, _, _, _)

\* one Field of the payload
read_field(buf, pos) ==
    LET got_name(name) ==
            IF name.err # "" THEN RErr("Execution", Leaf("Null"), name.pos) ELSE
            LET got_type(t) ==
                    IF t.err # "" THEN t
                    ELSE IF t.pos + 4 > Len(buf) \/ buf[t.pos + 1] > 1
                         THEN RErr("Execution", Leaf("Null"), t.pos)
                    ELSE ROk(Field(name.val, t.val, buf[t.pos + 1] = 1), t.pos + 4)
            IN got_type(from_bytes_at(buf, name.pos))
    IN got_name(read_str(buf, pos))

\* n Fields in a row, appended to acc
read_fields(buf, pos, n, acc) ==
    IF n = 0 THEN ROk(acc, pos)
    ELSE LET got_field(f) ==
                IF f.err # "" THEN RErr(f.err, acc, f.pos)
                ELSE read_fields(buf, f.pos, n - 1, Append(acc, f.val))
         IN got_field(read_field(buf, pos))

\* the DataType that starts at pos of the payload
from_bytes_at(buf, pos) ==
    LET bad == RErr("Execution", Leaf("Null"), pos)
        tag == IF pos + 1 > Len(buf) THEN -1 ELSE buf[pos + 1]
        p1 == pos + 1
        got_tz(unit, tz) ==
            IF tz.err # "" THEN bad ELSE ROk(Timestamp(unit, <<tz.val>>), tz.pos)
        got_size(n) ==
            IF n.err # "" THEN bad ELSE ROk(FixedSizeBinary(n.val \div 2), n.pos)
        got_item(k, f) ==
            IF f.err # "" THEN bad
            ELSE ROk(IF k = "List" THEN List(f.val) ELSE LargeList(f.val), f.pos)
        got_entries(f) ==
            IF f.err # "" \/ f.pos + 1 > Len(buf) \/ buf[f.pos + 1] > 1 THEN bad
            ELSE ROk(Map(f.val, buf[f.pos + 1] = 1), f.pos + 1)
        got_fields(fs) ==
            IF fs.err # "" THEN bad ELSE ROk(Struct(fs.val), fs.pos)
        got_count(n) ==
            IF n.err # "" THEN bad ELSE got_fields(read_fields(buf, n.pos, n.val, <<>>))
        of_kind(k) ==
            CASE k = "Timestamp" ->
                    IF p1 + 2 > Len(buf) \/ buf[p1 + 1] >= Len(TimeUnits) \/ buf[p1 + 2] > 1
                    THEN bad
                    ELSE IF buf[p1 + 2] = 0
                         THEN ROk(Timestamp(TimeUnits[buf[p1 + 1] + 1], <<>>), p1 + 2)
                    ELSE got_tz(TimeUnits[buf[p1 + 1] + 1], read_str(buf, p1 + 2))
              [] k = "Interval" ->
                    IF p1 + 1 > Len(buf) \/ buf[p1 + 1] >= Len(IntervalUnits) THEN bad
                    ELSE ROk(Interval(IntervalUnits[buf[p1 + 1] + 1]), p1 + 1)
              [] k = "FixedSizeBinary" -> got_size(read_len(buf, p1))
              [] k = "Decimal128" ->
                    IF p1 + 2 > Len(buf) THEN bad
                    ELSE ROk(Decimal128(buf[p1 + 1],
                                        IF buf[p1 + 2] < 128 THEN buf[p1 + 2]
                                        ELSE buf[p1 + 2] - 256),
                             p1 + 2)
              [] k \in {"List", "LargeList"} -> got_item(k, read_field(buf, p1))
              [] k = "Map" -> got_entries(read_field(buf, p1))
              [] k = "Struct" -> got_count(read_len(buf, p1))
              [] OTHER -> ROk(Leaf(k), p1)
    IN IF \A k \in Kinds : KindTags[k] # tag THEN bad
       ELSE of_kind(CHOOSE kk \in Kinds : KindTags[kk] = tag)

\* postcard::from_bytes: the value at the start of the buffer
from_bytes(buf) == from_bytes_at(buf, 0)

\* write_data_type: the name-stripped type tree, framed by its byte length
write_data_type(data_type) ==
    LET buf == to_allocvec(nameless_data_type(data_type)) IN
    WThen(write_len(Len(buf)), WOk(buf))

\* read_data_type: the length prefix, that many bytes, the type tree in them
read_data_type(inp, pos) ==
    LET got_len(buf_len) ==
            IF buf_len.err # "" THEN RErr(buf_len.err, Leaf("Null"), buf_len.pos) ELSE
            LET got_buf(buf) ==
                    IF buf.err # "" THEN RErr(buf.err, Leaf("Null"), buf.pos) ELSE
                    LET got_type(data_type) ==
                            IF data_type.err # "" THEN RErr("Execution", Leaf("Null"), buf.pos)
                            ELSE ROk(data_type.val, buf.pos)
                    IN got_type(from_bytes(buf.val))
            IN got_buf(read_bytes_slice(inp, buf_len.pos, buf_len.val))
    IN got_len(read_len(inp, pos))

\* ------------------------------------------------------------------- arrays
\* An arrow array: its data type, logical length and base offset, and its
\* physical buffers: the validity bitmap (when has_nulls), the value bytes
\* (fixed-width values, packed booleans, or the bytes of a Utf8/Binary array),
\* the offsets of a Utf8/Binary/List/Map array, and the child arrays (the
\* values of a List, the keys and values of a Map, the columns of a Struct).
\* offset counts rows into validity, values and offsets; the columns of a
\* Struct carry their own offset.
Array(data_type, len, offset, has_nulls, validity, values, offsets, children) ==
    [data_type |-> data_type, len |-> len, offset |-> offset, has_nulls |-> has_nulls,
     validity |-> validity, values |-> values, offsets |-> offsets, children |-> children]

\* array.is_valid(i), i counted from 0
is_valid(array, i) ==
    array.data_type.k # "Null"
        /\ (array.has_nulls => get_bit(array.validity, array.offset + i))

\* array.to_data().nulls(): the null buffer, kept only when the logical range
\* holds a null
nulls(array) ==
    IF array.has_nulls /\ \E i \in 0..(array.len - 1) : ~get_bit(array.validity, array.offset + i)
    THEN <<[buffer |-> array.validity, offset |-> array.offset, len |-> array.len]>>
    ELSE <<>>

\* array.value_offsets(): the len + 1 offsets of the logical rows
value_offsets(array) == [i \in 1..(array.len + 1) |-> array.offsets[array.offset + i]]

RECURSIVE slice(_, _, _)
\* array.slice(offset, length): a view on the same buffers; a StructArray
\* slices its columns
slice(array, offset, length) ==
    [array EXCEPT !.offset = array.offset + offset,
                  !.len = length,
                  !.children = IF array.data_type.k = "Struct"
                               THEN [j \in 1..Len(array.children) |->
                                        slice(array.children[j], offset, length)]
                               ELSE array.children]

\* the validity flag and bitmap every write_*_array starts with
write_nulls(array) ==
    IF nulls(array) # <<>>
    THEN LET null_buffer == nulls(array)[1] IN
         WThen(write_len(1),
               write_bits_buffer(null_buffer.buffer, null_buffer.offset, null_buffer.len))
    ELSE write_len(0)

RECURSIVE WFold(_)
\* a sequence of writes to the same output, in order, stopping at the first error
WFold(ws) == IF ws = <<>> THEN WOk(<<>>) ELSE WThen(Head(ws), WFold(Tail(ws)))

\* a fault of the length loops: the end offset of every row is written, not its
\* length
write_lengths_as_offsets(array) ==
    LET vo == value_offsets(array) IN
    WFold([i \in 1..array.len |-> write_len(vo[i + 1])])

\* the per-row lengths of a Utf8/Binary/List/Map array, each written by write_len
write_lengths(array) ==
    LET vo == value_offsets(array) IN
    WFold([i \in 1..array.len |-> write_len(vo[i + 1] - vo[i])])

write_primitive_array(array) ==
    LET item_size == ByteWidth(array.data_type.k) IN
    WThen(write_nulls(array),
          WOk(Bytes(array.values, item_size * array.offset, item_size * array.len)))

write_boolean_array(array) ==
    WThen(write_nulls(array), write_bits_buffer(array.values, array.offset, array.len))

write_bytes_array(array) ==
    LET vo == value_offsets(array)
        first_offset == vo[1]
        cur_offset == vo[array.len + 1] IN
    WThen(write_nulls(array),
    WThen(write_lengths(array),
          WOk(Bytes(array.values, first_offset, cur_offset - first_offset))))

RECURSIVE write_array(_)

\* a fault of write_list_array: the whole child array is written, not the range
\* of the logical rows
write_list_array_whole_values(array) ==
    WThen(write_nulls(array), WThen(write_lengths(array), write_array(array.children[1])))

write_list_array(array) ==
    LET vo == value_offsets(array)
        values == slice(array.children[1], vo[1], vo[array.len + 1] - vo[1]) IN
    WThen(write_nulls(array), WThen(write_lengths(array), write_array(values)))

write_map_array(array) ==
    LET vo == value_offsets(array)
        first_offset == vo[1]
        entries_len == vo[array.len + 1] - first_offset
        keys == slice(array.children[1], first_offset, entries_len)
        values == slice(array.children[2], first_offset, entries_len) IN
    WThen(write_nulls(array),
    WThen(write_lengths(array),
    WThen(write_array(keys), write_array(values))))

write_struct_array(array) ==
    WThen(write_nulls(array),
          WFold([j \in 1..Len(array.children) |-> write_array(array.children[j])]))

\* write_array: the dispatch on the data type
write_array(array) ==
    LET k == array.data_type.k IN
    CASE k = "Null" -> WOk(<<>>)
      [] k = "Boolean" -> write_boolean_array(array)
      [] k \in PrimitiveKinds -> write_primitive_array(array)
      [] k \in {"Utf8", "Binary"} -> write_bytes_array(array)
      [] k = "List" -> write_list_array(array)
      [] k = "Map" -> write_map_array(array)
      [] k = "Struct" -> write_struct_array(array)
      [] OTHER -> WErr("NotImplemented", <<>>)

\* ---- reading ----
NoArray == Array(Leaf("Null"), 0, 0, FALSE, <<>>, <<>>, <<>>, <<>>)

\* the validity flag and, when it is 1, the bitmap of num_rows bits
read_nulls(inp, pos, num_rows) ==
    LET got_bits(bits) ==
            IF bits.err # "" THEN RErr(bits.err, <<>>, bits.pos) ELSE ROk(<<bits.val>>, bits.pos)
        got_flag(flag) ==
            IF flag.err # "" THEN RErr(flag.err, <<>>, flag.pos)
            ELSE IF flag.val # 1 THEN ROk(<<>>, flag.pos)
            ELSE got_bits(read_bits_buffer(inp, flag.pos, num_rows))
    IN got_flag(read_len(inp, pos))

RECURSIVE read_offsets_from(_, _, _, _)
read_offsets_from(inp, pos, n, acc) ==
    IF n = 0 THEN ROk(acc, pos)
    ELSE LET got_len(len) ==
                IF len.err # "" THEN RErr(len.err, acc, len.pos)
                ELSE read_offsets_from(inp, len.pos, n - 1, Append(acc, acc[Len(acc)] + len.val))
         IN got_len(read_len(inp, pos))

\* the offsets rebuilt from num_rows lengths: a running sum that starts at 0
read_offsets(inp, pos, num_rows) == read_offsets_from(inp, pos, num_rows, <<0>>)

\* the array ArrayData::try_new and make_array build at offset 0
new_array(data_type, num_rows, null_buffer, values, offsets, children) ==
    Array(data_type, num_rows, 0, null_buffer # <<>>,
          IF null_buffer = <<>> THEN <<>> ELSE null_buffer[1], values, offsets, children)

\* PT::DATA_TYPE of the primitive type read_array picks for a data type: the
\* kind, a Timestamp's unit without a time zone, DECIMAL128's default
\* precision and scale
PT_DATA_TYPE(data_type) ==
    CASE data_type.k = "Timestamp" -> Timestamp(data_type.unit, <<>>)
      [] data_type.k = "Decimal128" -> Decimal128(38, 10)
      [] OTHER -> Leaf(data_type.k)

read_primitive_array(num_rows, inp, pos, data_type) ==
    LET got_nulls(null_buffer) ==
            IF null_buffer.err # "" THEN RErr(null_buffer.err, NoArray, null_buffer.pos) ELSE
            LET got_data(data_buffer) ==
                    IF data_buffer.err # "" THEN RErr(data_buffer.err, NoArray, data_buffer.pos)
                    ELSE ROk(new_array(PT_DATA_TYPE(data_type), num_rows, null_buffer.val,
                                       data_buffer.val, <<>>, <<>>),
                             data_buffer.pos)
            IN got_data(read_bytes_slice(inp, null_buffer.pos,
                                         num_rows * ByteWidth(data_type.k)))
    IN got_nulls(read_nulls(inp, pos, num_rows))

read_boolean_array(num_rows, inp, pos) ==
    LET got_nulls(null_buffer) ==
            IF null_buffer.err # "" THEN RErr(null_buffer.err, NoArray, null_buffer.pos) ELSE
            LET got_data(data_buffer) ==
                    IF data_buffer.err # "" THEN RErr(data_buffer.err, NoArray, data_buffer.pos)
                    ELSE ROk(new_array(Leaf("Boolean"), num_rows, null_buffer.val,
                                       data_buffer.val, <<>>, <<>>),
                             data_buffer.pos)
            IN got_data(read_bits_buffer(inp, null_buffer.pos, num_rows))
    IN got_nulls(read_nulls(inp, pos, num_rows))

read_bytes_array(num_rows, inp, pos, data_type) ==
    LET got_nulls(null_buffer) ==
            IF null_buffer.err # "" THEN RErr(null_buffer.err, NoArray, null_buffer.pos) ELSE
            LET got_offsets(offsets_buffer) ==
                    IF offsets_buffer.err # ""
                    THEN RErr(offsets_buffer.err, NoArray, offsets_buffer.pos) ELSE
                    LET got_data(data_buffer) ==
                            IF data_buffer.err # ""
                            THEN RErr(data_buffer.err, NoArray, data_buffer.pos)
                            ELSE ROk(new_array(data_type, num_rows, null_buffer.val,
                                               data_buffer.val, offsets_buffer.val, <<>>),
                                     data_buffer.pos)
                    IN got_data(read_bytes_slice(inp, offsets_buffer.pos,
                                                 offsets_buffer.val[num_rows + 1]))
            IN got_offsets(read_offsets(inp, null_buffer.pos, num_rows))
    IN got_nulls(read_nulls(inp, pos, num_rows))

RECURSIVE read_array(_, _, _, _)
RECURSIVE read_arrays(_, _, _, _, _)

\* one read_array per field, in field order, each with num_rows rows
read_arrays(inp, pos, fields, num_rows, acc) ==
    IF Len(acc) = Len(fields) THEN ROk(acc, pos)
    ELSE LET got_array(a) ==
                IF a.err # "" THEN RErr(a.err, acc, a.pos)
                ELSE read_arrays(inp, a.pos, fields, num_rows, Append(acc, a.val))
         IN got_array(read_array(inp, pos, fields[Len(acc) + 1].data_type, num_rows))

\* ArrayData::try_new checks that every child has the data type of its field
children_match(fields, children) ==
    \A j \in 1..Len(fields) : children[j].data_type = fields[j].data_type

read_list_array(num_rows, inp, pos, list_field) ==
    LET got_nulls(null_buffer) ==
            IF null_buffer.err # "" THEN RErr(null_buffer.err, NoArray, null_buffer.pos) ELSE
            LET got_offsets(offsets_buffer) ==
                    IF offsets_buffer.err # ""
                    THEN RErr(offsets_buffer.err, NoArray, offsets_buffer.pos) ELSE
                    LET got_values(values) ==
                            IF values.err # "" THEN RErr(values.err, NoArray, values.pos)
                            ELSE IF ~children_match(<<list_field>>, <<values.val>>)
                                 THEN RErr("ArrowError", NoArray, values.pos)
                            ELSE ROk(new_array(List(list_field), num_rows, null_buffer.val,
                                               <<>>, offsets_buffer.val, <<values.val>>),
                                     values.pos)
                    IN got_values(read_array(inp, offsets_buffer.pos, list_field.data_type,
                                             offsets_buffer.val[num_rows + 1]))
            IN got_offsets(read_offsets(inp, null_buffer.pos, num_rows))
    IN got_nulls(read_nulls(inp, pos, num_rows))

read_map_array(num_rows, inp, pos, map_field, is_sorted) ==
    LET kv_fields == map_field.data_type.fields
        got_nulls(null_buffer) ==
            IF null_buffer.err # "" THEN RErr(null_buffer.err, NoArray, null_buffer.pos) ELSE
            LET got_offsets(offsets_buffer) ==
                    IF offsets_buffer.err # ""
                    THEN RErr(offsets_buffer.err, NoArray, offsets_buffer.pos)
                    ELSE IF map_field.data_type.k # "Struct"
                         THEN RErr("panic", NoArray, offsets_buffer.pos) ELSE
                    LET got_entries(key_values) ==
                            IF key_values.err # ""
                            THEN RErr(key_values.err, NoArray, key_values.pos)
                            ELSE IF ~children_match(kv_fields, key_values.val)
                                 THEN RErr("ArrowError", NoArray, key_values.pos)
                            ELSE IF Len(kv_fields) # 2
                                 THEN RErr("panic", NoArray, key_values.pos)
                            ELSE ROk(new_array(Map(map_field, is_sorted), num_rows,
                                               null_buffer.val, <<>>, offsets_buffer.val,
                                               key_values.val),
                                     key_values.pos)
                    IN got_entries(read_arrays(inp, offsets_buffer.pos, kv_fields,
                                               offsets_buffer.val[num_rows + 1], <<>>))
            IN got_offsets(read_offsets(inp, null_buffer.pos, num_rows))
    IN got_nulls(read_nulls(inp, pos, num_rows))

read_struct_array(num_rows, inp, pos, fields) ==
    LET got_nulls(null_buffer) ==
            IF null_buffer.err # "" THEN RErr(null_buffer.err, NoArray, null_buffer.pos) ELSE
            LET got_children(child_arrays) ==
                    IF child_arrays.err # ""
                    THEN RErr(child_arrays.err, NoArray, child_arrays.pos)
                    ELSE IF ~children_match(fields, child_arrays.val)
                         THEN RErr("ArrowError", NoArray, child_arrays.pos)
                    ELSE ROk(new_array(Struct(fields), num_rows, null_buffer.val, <<>>, <<>>,
                                       child_arrays.val),
                             child_arrays.pos)
            IN got_children(read_arrays(inp, null_buffer.pos, fields, num_rows, <<>>))
    IN got_nulls(read_nulls(inp, pos, num_rows))

\* with_precision_and_scale accepts a precision of 1..38 and a scale up to it
valid_precision_and_scale(prec, scale) == prec >= 1 /\ prec <= 38 /\ scale <= prec

\* read_array: the dispatch on the data type
read_array(inp, pos, data_type, num_rows) ==
    LET k == data_type.k
        with_precision_and_scale(a) ==
            IF a.err # "" THEN a
            ELSE IF ~valid_precision_and_scale(data_type.precision, data_type.scale)
                 THEN RErr("ArrowError", NoArray, a.pos)
            ELSE ROk([a.val EXCEPT !.data_type =
                         Decimal128(data_type.precision, data_type.scale)], a.pos)
    IN
    CASE k = "Null" -> ROk(new_array(Leaf("Null"), num_rows, <<>>, <<>>, <<>>, <<>>), pos)
      [] k = "Boolean" -> read_boolean_array(num_rows, inp, pos)
      [] k = "Decimal128" ->
            with_precision_and_scale(read_primitive_array(num_rows, inp, pos, data_type))
      [] k \in PrimitiveKinds \ {"Decimal128"} ->
            read_primitive_array(num_rows, inp, pos, data_type)
      [] k \in {"Utf8", "Binary"} -> read_bytes_array(num_rows, inp, pos, Leaf(k))
      [] k = "List" -> read_list_array(num_rows, inp, pos, data_type.fields[1])
      [] k = "Map" -> read_map_array(num_rows, inp, pos, data_type.fields[1], data_type.sorted)
      [] k = "Struct" -> read_struct_array(num_rows, inp, pos, data_type.fields)
      [] OTHER -> RErr("NotImplemented", NoArray, pos)

\* ------------------------------------------------------------------ scalars
\* A ScalarValue: its data type (the variant and the parameters the variant
\* carries), whether it is the None of its variant, the bytes of a leaf value
\* (to_ne_bytes of a number, 0/1 of a boolean, the bytes of a string), and its
\* items: the elements of a List, the fields of a Struct, the inner value of a
\* Map.
Scalar(data_type, null, bytes, items) ==
    [data_type |-> data_type, null |-> null, bytes |-> bytes, items |-> items]

NoScalar == Scalar(Leaf("Null"), TRUE, <<>>, <<>>)

\* the variants write_scalar has a Some and a None arm for
ScalarKinds ==
    {"Boolean", "Int8", "Int16", "Int32", "Int64", "UInt8", "UInt16", "UInt32", "UInt64",
     "Float32", "Float64", "Decimal128", "Utf8", "Binary", "Date32", "Date64", "List", "Struct"}

RECURSIVE write_scalar(_)
\* a fault of write_scalar: the length of a present Utf8 or Binary value is
\* written as it is, not plus one
write_scalar_plain_length(value) ==
    LET k == value.data_type.k IN
    CASE k = "Null" -> WOk(<<>>)
      [] k = "Map" -> write_scalar(value.items[1])
      [] k \in ScalarKinds ->
            IF value.null THEN write_len(0)
            ELSE CASE k = "Boolean" -> write_u8(value.bytes[1] + 1)
                   [] k \in {"Utf8", "Binary"} ->
                        WThen(write_len(Len(value.bytes)), WOk(value.bytes))
                   [] k \in {"List", "Struct"} ->
                        WThen(write_len(Len(value.items) + 1),
                              WFold([i \in 1..Len(value.items) |-> write_scalar(value.items[i])]))
                   [] OTHER -> WThen(write_len(1), WOk(value.bytes))
      [] OTHER -> WErr("NotImplemented", <<>>)

write_scalar(value) ==
    LET k == value.data_type.k IN
    CASE k = "Null" -> WOk(<<>>)
      [] k = "Map" -> write_scalar(value.items[1])
      [] k \in ScalarKinds ->
            IF value.null THEN write_len(0)
            ELSE CASE k = "Boolean" -> write_u8(value.bytes[1] + 1)
                   [] k \in {"Utf8", "Binary"} ->
                        WThen(write_len(Len(value.bytes) + 1), WOk(value.bytes))
                   [] k \in {"List", "Struct"} ->
                        WThen(write_len(Len(value.items) + 1),
                              WFold([i \in 1..Len(value.items) |-> write_scalar(value.items[i])]))
                   [] OTHER -> WThen(write_len(1), WOk(value.bytes))
      [] OTHER -> WErr("NotImplemented", <<>>)

\* ---- String::from_utf8_lossy ----
\* the length of the UTF-8 sequence a lead byte starts, 0 for a byte that starts none
Utf8Width(b) ==
    CASE b < 128 -> 1
      [] b >= 194 /\ b <= 223 -> 2
      [] b >= 224 /\ b <= 239 -> 3
      [] b >= 240 /\ b <= 244 -> 4
      [] OTHER -> 0

\* the bytes that may follow a lead byte at place j (2..4) of its sequence
Utf8Follows(lead, j, b) ==
    CASE j = 2 /\ lead = 224 -> b >= 160 /\ b <= 191
      [] j = 2 /\ lead = 237 -> b >= 128 /\ b <= 159
      [] j = 2 /\ lead = 240 -> b >= 144 /\ b <= 191
      [] j = 2 /\ lead = 244 -> b >= 128 /\ b <= 143
      [] OTHER -> b >= 128 /\ b <= 191

RECURSIVE Utf8Matched(_, _)
\* how many bytes of s, from the lead byte s[1] on, form the start of one sequence,
\* given that the first m do
Utf8Matched(s, m) ==
    IF m < Utf8Width(s[1]) /\ m < Len(s) /\ Utf8Follows(s[1], m + 1, s[m + 1])
    THEN Utf8Matched(s, m + 1)
    ELSE m

RECURSIVE from_utf8_lossy(_)
\* valid sequences are kept, every maximal ill-formed run of bytes becomes U+FFFD
from_utf8_lossy(s) ==
    LET rest(m) ==
            IF Utf8Width(s[1]) > 0 /\ m = Utf8Width(s[1])
            THEN SubSeq(s, 1, m) \o from_utf8_lossy(SubSeq(s, m + 1, Len(s)))
            ELSE <<239, 191, 189>> \o from_utf8_lossy(SubSeq(s, m + 1, Len(s)))
    IN IF s = <<>> THEN <<>> ELSE rest(Utf8Matched(s, 1))

\* ---- read_scalar ----
RECURSIVE read_scalar(_, _, _)
RECURSIVE read_scalars(_, _, _, _)

\* one read_scalar per data type, in order
read_scalars(inp, pos, data_types, acc) ==
    IF Len(acc) = Len(data_types) THEN ROk(acc, pos)
    ELSE LET got_child(child_value) ==
                IF child_value.err # "" THEN RErr(child_value.err, acc, child_value.pos)
                ELSE read_scalars(inp, child_value.pos, data_types,
                                  Append(acc, child_value.val))
         IN got_child(read_scalar(inp, pos, data_types[Len(acc) + 1]))

\* read_primitive_scalar!: the validity, then len bytes when it is not 0
read_primitive_scalar(inp, pos, len, data_type) ==
    LET got_buf(buf) ==
            IF buf.err # "" THEN RErr(buf.err, NoScalar, buf.pos)
            ELSE ROk(Scalar(data_type, FALSE, buf.val, <<>>), buf.pos)
        got_valid(valid) ==
            IF valid.err # "" THEN RErr(valid.err, NoScalar, valid.pos)
            ELSE IF valid.val # 0 THEN got_buf(read_bytes_slice(inp, valid.pos, len))
            ELSE ROk(Scalar(data_type, TRUE, <<>>, <<>>), valid.pos)
    IN got_valid(read_len(inp, pos))

read_scalar(inp, pos, data_type) ==
    LET k == data_type.k
        none(at) == ROk(Scalar(data_type, TRUE, <<>>, <<>>), at)
        fail(r) == RErr(r.err, NoScalar, r.pos)
        got_bool(b) ==
            IF b.err # "" THEN fail(b)
            ELSE IF b.val = 0 THEN none(b.pos)
            ELSE ROk(Scalar(data_type, FALSE, <<IF b.val = 1 THEN 0 ELSE 1>>, <<>>), b.pos)
        got_bytes(value_buf) ==
            IF value_buf.err # "" THEN fail(value_buf)
            ELSE ROk(Scalar(data_type, FALSE,
                            IF k = "Utf8" THEN from_utf8_lossy(value_buf.val)
                            ELSE value_buf.val, <<>>),
                     value_buf.pos)
        got_bytes_len(data_len) ==
            IF data_len.err # "" THEN fail(data_len)
            ELSE IF data_len.val > 0
                 THEN got_bytes(read_bytes_slice(inp, data_len.pos, data_len.val - 1))
            ELSE none(data_len.pos)
        got_children(n, children) ==
            IF children.err # "" THEN fail(children)
            ELSE IF Len(children.val) < n THEN RErr("panic", NoScalar, children.pos)
            ELSE ROk(Scalar(data_type, FALSE, <<>>, children.val), children.pos)
        got_list_len(data_len) ==
            IF data_len.err # "" THEN fail(data_len)
            ELSE IF data_len.val > 0
                 THEN got_children(data_len.val - 1,
                        read_scalars(inp, data_len.pos,
                                     [i \in 1..(data_len.val - 1) |->
                                         data_type.fields[1].data_type], <<>>))
            ELSE none(data_len.pos)
        got_struct_len(data_len) ==
            IF data_len.err # "" THEN fail(data_len)
            ELSE IF data_len.val > 0
                 THEN got_children(data_len.val - 1,
                        read_scalars(inp, data_len.pos,
                                     [i \in 1..Min(data_len.val - 1, Len(data_type.fields)) |->
                                         data_type.fields[i].data_type], <<>>))
            ELSE none(data_len.pos)
        got_map_value(map_value) ==
            IF map_value.err # "" THEN fail(map_value)
            ELSE ROk(Scalar(data_type, FALSE, <<>>, <<map_value.val>>), map_value.pos)
    IN
    CASE k = "Null" -> ROk(Scalar(Leaf("Null"), TRUE, <<>>, <<>>), pos)
      [] k = "Boolean" -> got_bool(read_u8(inp, pos))
      [] k \in (PrimitiveKinds \ {"Timestamp"}) ->
            read_primitive_scalar(inp, pos, ByteWidth(k), data_type)
      [] k \in {"Utf8", "Binary"} -> got_bytes_len(read_len(inp, pos))
      [] k = "List" -> got_list_len(read_len(inp, pos))
      [] k = "Struct" -> got_struct_len(read_len(inp, pos))
      [] k = "Map" -> got_map_value(read_scalar(inp, pos, data_type.fields[1].data_type))
      [] OTHER -> RErr("NotImplemented", NoScalar, pos)

\* ----------------------------------------------------- logical rows of arrays
\* The value of an array is the sequence of its logical rows.  A row is null, or
\* holds the bytes of a leaf value, or the rows of its items: the elements of a
\* list, the entries of a map (each an item holding the key and the value), the
\* fields of a struct.
Row(null, bytes, items) == [null |-> null, bytes |-> bytes, items |-> items]
NullRow == Row(TRUE, <<>>, <<>>)

RECURSIVE rows_of(_)
\* the logical rows of an array: what array.is_valid(i) and array.value(i) give
rows_of(array) ==
    LET k == array.data_type.k
        o == array.offset
        kids == [j \in 1..Len(array.children) |-> rows_of(array.children[j])] IN
    [i \in 1..array.len |->
        IF ~is_valid(array, i - 1) THEN NullRow
        ELSE CASE k = "Boolean" ->
                    Row(FALSE, <<BoolByte(get_bit(array.values, o + i - 1))>>, <<>>)
               [] k \in PrimitiveKinds ->
                    Row(FALSE, Bytes(array.values, ByteWidth(k) * (o + i - 1), ByteWidth(k)), <<>>)
               [] k \in {"Utf8", "Binary"} ->
                    Row(FALSE, Bytes(array.values, array.offsets[o + i],
                                     array.offsets[o + i + 1] - array.offsets[o + i]), <<>>)
               [] k = "List" ->
                    Row(FALSE, <<>>, SubSeq(kids[1], array.offsets[o + i] + 1, array.offsets[o + i + 1]))
               [] k = "Map" ->
                    Row(FALSE, <<>>,
                        [e \in 1..(array.offsets[o + i + 1] - array.offsets[o + i]) |->
                            Row(FALSE, <<>>, <<kids[1][array.offsets[o + i] + e],
                                               kids[2][array.offsets[o + i] + e]>>)])
               [] k = "Struct" ->
                    Row(FALSE, <<>>, [j \in 1..Len(kids) |-> kids[j][i]])
               [] OTHER -> Row(FALSE, <<>>, <<>>)]

RECURSIVE Sum(_)
Sum(ns) == IF ns = <<>> THEN 0 ELSE Head(ns) + Sum(Tail(ns))

\* offsets of rows with the given lengths, from 0
OffsetsOf(lens) == [i \in 1..(Len(lens) + 1) |-> Sum(SubSeq(lens, 1, i - 1))]

RECURSIVE from_rows(_, _)
\* the array an arrow builder makes of logical rows: base offset 0, a validity
\* bitmap when a row is null, zeroed values and empty ranges at null rows
from_rows(data_type, rows) ==
    LET k == data_type.k
        n == Len(rows)
        has_nulls == k # "Null" /\ \E i \in 1..n : rows[i].null
        validity == IF has_nulls THEN PackBits([i \in 1..n |-> ~rows[i].null]) ELSE <<>>
        items == Concat([i \in 1..n |-> rows[i].items]) IN
    CASE k = "Boolean" ->
            Array(data_type, n, 0, has_nulls, validity,
                  PackBits([i \in 1..n |-> ~rows[i].null /\ rows[i].bytes[1] = 1]), <<>>, <<>>)
      [] k \in PrimitiveKinds ->
            Array(data_type, n, 0, has_nulls, validity,
                  Concat([i \in 1..n |-> IF rows[i].null THEN Zeros(ByteWidth(k))
                                         ELSE rows[i].bytes]), <<>>, <<>>)
      [] k \in {"Utf8", "Binary"} ->
            Array(data_type, n, 0, has_nulls, validity,
                  Concat([i \in 1..n |-> rows[i].bytes]),
                  OffsetsOf([i \in 1..n |-> Len(rows[i].bytes)]), <<>>)
      [] k \in {"List", "LargeList"} ->
            Array(data_type, n, 0, has_nulls, validity, <<>>,
                  OffsetsOf([i \in 1..n |-> Len(rows[i].items)]),
                  <<from_rows(data_type.fields[1].data_type, items)>>)
      [] k = "Map" ->
            Array(data_type, n, 0, has_nulls, validity, <<>>,
                  OffsetsOf([i \in 1..n |-> Len(rows[i].items)]),
                  [j \in 1..2 |->
                      from_rows(data_type.fields[1].data_type.fields[j].data_type,
                                [e \in 1..Len(items) |-> items[e].items[j]])])
      [] k = "Struct" ->
            Array(data_type, n, 0, has_nulls, validity, <<>>, <<>>,
                  [j \in 1..Len(data_type.fields) |->
                      from_rows(data_type.fields[j].data_type,
                                [i \in 1..n |-> IF rows[i].null THEN NullRow
                                                ELSE rows[i].items[j]])])
      [] OTHER -> Array(data_type, n, 0, FALSE, <<>>,
                        Concat([i \in 1..n |-> rows[i].bytes]), <<>>, <<>>)

\* ------------------------------------------------------------------ batches
\* A RecordBatch: the fields of its schema, its columns and its row count.
RecordBatch(schema, columns, num_rows) ==
    [schema |-> schema, columns |-> columns, num_rows |-> num_rows]

NoBatch == RecordBatch(<<>>, <<>>, 0)

\* batch.slice(offset, length): every column sliced
slice_batch(batch, offset, length) ==
    RecordBatch(batch.schema,
                [j \in 1..Len(batch.columns) |-> slice(batch.columns[j], offset, length)],
                length)

\* the logical value of a batch: the rows of every column
batch_rows(batch) == [j \in 1..Len(batch.columns) |-> rows_of(batch.columns[j])]

\* ---- the stream compressor (zstd), one frame per write_batch call ----
\* A frame is the magic number, the content length and the coded content; the
\* coding is a byte-wise bijection that is not the identity.
ZstdMagic == <<40, 181, 47, 253>>

zstd_encode(content) ==
    ZstdMagic \o LenBytes(Len(content)) \o [i \in 1..Len(content) |-> (content[i] + 1) % 256]

\* the decoder on the bytes of a source: the content it yields before the frame
\* ends or the source runs out (err), and the source bytes of the frame
zstd_decode(src) ==
    LET got_len(n) ==
            IF n.err # "" THEN [err |-> "IoError", out |-> <<>>, used |-> Len(src)]
            ELSE [err |-> IF Len(src) - n.pos < n.val THEN "IoError" ELSE "",
                  out |-> [i \in 1..Min(n.val, Len(src) - n.pos) |-> (src[n.pos + i] + 255) % 256],
                  used |-> n.pos + Min(n.val, Len(src) - n.pos)]
    IN IF Len(src) < Len(ZstdMagic) \/ SubSeq(src, 1, Len(ZstdMagic)) # ZstdMagic
       THEN [err |-> "IoError", out |-> <<>>, used |-> Min(Len(src), Len(ZstdMagic))]
       ELSE got_len(read_len(src, Len(ZstdMagic)))

\* ---- write_batch ----
\* a fault of write_batch_body: the nullability bytes come before the type
\* descriptors
write_batch_body_nullables_first(batch) ==
    LET fields == batch.schema
        num_columns == Len(batch.columns) IN
    WThen(write_len(num_columns),
    WThen(write_len(batch.num_rows),
    WThen(WOk(PackBits([j \in 1..Len(fields) |-> fields[j].nullable])),
    WThen(WFold([j \in 1..Len(fields) |-> write_data_type(fields[j].data_type)]),
          WFold([j \in 1..num_columns |-> write_array(batch.columns[j])])))))

\* the record write_batch sends to its output: the column count, the row count,
\* the type descriptors, the nullability bits, the columns
write_batch_body(batch) ==
    LET fields == batch.schema
        num_columns == Len(batch.columns) IN
    WThen(write_len(num_columns),
    WThen(write_len(batch.num_rows),
    WThen(WFold([j \in 1..Len(fields) |-> write_data_type(fields[j].data_type)]),
    WThen(WOk(PackBits([j \in 1..Len(fields) |-> fields[j].nullable])),
          WFold([j \in 1..num_columns |-> write_array(batch.columns[j])])))))

\* the writes of write_batch_body one by one, in program order
write_batch_steps(batch) ==
    <<write_len(Len(batch.columns)), write_len(batch.num_rows)>>
        \o [j \in 1..Len(batch.schema) |-> write_data_type(batch.schema[j].data_type)]
        \o <<WOk(PackBits([j \in 1..Len(batch.schema) |-> batch.schema[j].nullable]))>>
        \o [j \in 1..Len(batch.columns) |-> write_array(batch.columns[j])]

\* ---- the context of the errors of write_batch ----
\* what the message of an err.context(format!(..)) names: its text, and the
\* column index, the data type and the row count when the format string has them
\* (<<>> when it does not)
Context(text, column, data_type, num_rows) ==
    [text |-> text, column |-> column, data_type |-> data_type, num_rows |-> num_rows]

\* where write_batch fails: the part of the record and the index in it
write_batch_failure(batch) ==
    LET steps == write_batch_steps(batch)
        n == Len(batch.schema)
        failed == {s \in 1..Len(steps) : steps[s].err # ""}
        at(s) == CASE s <= 2 -> [step |-> "header", index |-> s]
                   [] s <= 2 + n -> [step |-> "data type", index |-> s - 2]
                   [] s = 3 + n -> [step |-> "nullables", index |-> 1]
                   [] OTHER -> [step |-> "column", index |-> s - 3 - n]
    IN IF failed = {} THEN [step |-> "", index |-> 0]
       ELSE at(CHOOSE s \in failed : \A x \in failed : s <= x)

\* the contexts on the error write_batch returns, the outermost first
write_batch_context(batch) ==
    LET at(failure) ==
            CASE failure.step = "data type" ->
                    <<Context("batch_serde error writing data type", <<>>,
                              <<batch.schema[failure.index].data_type>>, <<>>)>>
              [] failure.step = "column" ->
                    <<Context("batch_serde error writing column", <<>>,
                              <<batch.columns[failure.index].data_type>>, <<>>)>>
              [] OTHER -> <<>>
    IN at(write_batch_failure(batch))

\* CountWriter: the bytes its inner writer accepted
num_bytes_written(accepted) == Len(accepted)

\* a fault of write_batch: the counter sits on the sink, under the compressor
write_batch_counting_sink(batch, compress, uncompressed_size) ==
    LET written(body) ==
            [err |-> body.err,
             out |-> IF compress THEN zstd_encode(body.out) ELSE body.out,
             uncompressed_size |->
                IF uncompressed_size # <<>> /\ body.err = ""
                THEN <<num_bytes_written(IF compress THEN zstd_encode(body.out)
                                         ELSE body.out)>>
                ELSE uncompressed_size]
    IN written(write_batch_body(batch))

\* a fault of write_batch: the counter is stored whether or not a write failed
write_batch_storing_on_error(batch, compress, uncompressed_size) ==
    LET written(body) ==
            [err |-> body.err,
             out |-> IF compress THEN zstd_encode(body.out) ELSE body.out,
             uncompressed_size |->
                IF uncompressed_size # <<>>
                THEN <<num_bytes_written(body.out)>>
                ELSE uncompressed_size]
    IN written(write_batch_body(batch))

\* write_batch(batch, output, compress, uncompressed_size): the error, the bytes
\* the sink holds more once the writer is dropped (the frame of the compressor,
\* or the flushed buffer), and the caller's size variable; uncompressed_size is
\* <<>> for None and <<v>> for Some(&mut v)
write_batch(batch, compress, uncompressed_size) ==
    LET written(body) ==
            [err |-> body.err,
             out |-> IF compress THEN zstd_encode(body.out) ELSE body.out,
             uncompressed_size |->
                IF uncompressed_size # <<>> /\ body.err = ""
                THEN <<num_bytes_written(body.out)>>
                ELSE uncompressed_size]
    IN written(write_batch_body(batch))

\* ---- read_batch ----
RECURSIVE read_data_types(_, _, _, _)
read_data_types(inp, pos, n, acc) ==
    IF n = 0 THEN ROk(acc, pos)
    ELSE LET got_type(t) ==
                IF t.err # "" THEN RErr(t.err, acc, t.pos)
                ELSE read_data_types(inp, t.pos, n - 1, Append(acc, t.val))
         IN got_type(read_data_type(inp, pos))

\* RecordBatch::try_new_with_options: one column per field, the column types are
\* the schema's types, every column has num_rows rows and a column of a
\* non-nullable field holds no null
try_new_batch(schema, columns, num_rows) ==
    IF \/ Len(columns) # Len(schema)
       \/ \E j \in 1..Len(schema) :
             \/ columns[j].data_type # schema[j].data_type
             \/ columns[j].len # num_rows
             \/ (~schema[j].nullable /\ \E i \in 0..(num_rows - 1) : ~is_valid(columns[j], i)
                   /\ columns[j].data_type.k # "Null")
    THEN [err |-> "ArrowError", val |-> NoBatch]
    ELSE [err |-> "", val |-> RecordBatch(schema, columns, num_rows)]

\* the head of a record: the column count, the row count, the type descriptors
\* and the nullability bytes, made into the schema
read_batch_schema(inp) ==
    LET none == [schema |-> <<>>, num_rows |-> 0]
        got_nullables(num_rows, data_types, nullables_bytes) ==
            IF nullables_bytes.err # "" THEN RErr(nullables_bytes.err, none, nullables_bytes.pos)
            ELSE ROk([schema |-> [i \in 1..Len(data_types) |->
                                     Field(<<>>, data_types[i],
                                           get_bit(nullables_bytes.val, i - 1))],
                      num_rows |-> num_rows],
                     nullables_bytes.pos)
        got_types(num_columns, num_rows, data_types) ==
            IF data_types.err # "" THEN RErr(data_types.err, none, data_types.pos)
            ELSE got_nullables(num_rows, data_types.val,
                               read_bytes_slice(inp, data_types.pos, (num_columns + 7) \div 8))
        got_rows(num_columns, num_rows) ==
            IF num_rows.err # "" THEN RErr(num_rows.err, none, num_rows.pos)
            ELSE got_types(num_columns, num_rows.val,
                           read_data_types(inp, num_rows.pos, num_columns, <<>>))
        got_count(num_columns) ==
            IF num_columns.err # "" THEN RErr(num_columns.err, none, num_columns.pos)
            ELSE got_rows(num_columns.val, read_len(inp, num_columns.pos))
    IN got_count(read_len(inp, 0))

\* a fault of read_batch_columns: the columns decoded before a failure are made
\* into a batch
read_batch_columns_so_far(inp, pos, schema, num_rows) ==
    LET got_columns(columns) ==
            IF columns.err # ""
            THEN ROk(RecordBatch(SubSeq(schema, 1, Len(columns.val)), columns.val, num_rows),
                     columns.pos)
            ELSE [pos |-> columns.pos] @@ try_new_batch(schema, columns.val, num_rows)
    IN got_columns(read_arrays(inp, pos, schema, num_rows, <<>>))

\* the columns of a record, one read_array per field, made into the batch
read_batch_columns(inp, pos, schema, num_rows) ==
    LET got_columns(columns) ==
            IF columns.err # "" THEN RErr(columns.err, NoBatch, columns.pos)
            ELSE [pos |-> columns.pos] @@ try_new_batch(schema, columns.val, num_rows)
    IN got_columns(read_arrays(inp, pos, schema, num_rows, <<>>))

\* the record read_batch takes from its (decompressed) input
read_batch_body(inp) ==
    LET got_schema(head) ==
            IF head.err # "" THEN RErr(head.err, NoBatch, head.pos)
            ELSE read_batch_columns(inp, head.pos, head.val.schema, head.val.num_rows)
    IN got_schema(read_batch_schema(inp))

\* ---- the context of the errors of read_batch ----
\* where read_batch fails on its (decompressed) input: the part of the record and
\* the index in it
read_batch_failure(inp) ==
    LET in_columns(head, columns) ==
            IF columns.err # "" THEN [step |-> "column", index |-> Len(columns.val) + 1]
            ELSE [step |-> "batch", index |-> 1]
        in_types(num_columns, data_types) ==
            IF data_types.err # ""
            THEN [step |-> "data type", index |-> Len(data_types.val) + 1]
            ELSE [step |-> "nullables", index |-> 1]
        in_rows(num_columns, num_rows) ==
            IF num_rows.err # "" THEN [step |-> "header", index |-> 2]
            ELSE in_types(num_columns.val,
                          read_data_types(inp, num_rows.pos, num_columns.val, <<>>))
        in_count(num_columns) ==
            IF num_columns.err # "" THEN [step |-> "header", index |-> 1]
            ELSE in_rows(num_columns, read_len(inp, num_columns.pos))
        in_head(head) ==
            IF head.err # "" THEN in_count(read_len(inp, 0))
            ELSE in_columns(head, read_arrays(inp, head.pos, head.val.schema,
                                              head.val.num_rows, <<>>))
    IN IF read_batch_body(inp).err = "" THEN [step |-> "", index |-> 0]
       ELSE in_head(read_batch_schema(inp))

\* the contexts on the error read_batch returns on its (decompressed) input
read_batch_context(inp) ==
    LET at(failure, head) ==
            CASE failure.step = "data type" ->
                    <<Context("batch_serde error reading data type", <<>>, <<>>, <<>>)>>
              [] failure.step = "column" ->
                    <<Context("batch_serde error reading column", <<>>,
                              <<head.val.schema[failure.index].data_type>>,
                              <<head.val.num_rows>>)>>
              [] OTHER -> <<>>
    IN at(read_batch_failure(inp), read_batch_schema(inp))

\* the input read_batch decodes the record from: the source from pos on, put
\* through the decompressor under compress
read_batch_input(src, pos, compress_flag) ==
    IF compress_flag THEN zstd_decode(Bytes(src, pos, Len(src) - pos)).out
    ELSE Bytes(src, pos, Len(src) - pos)

\* capacity of the BufReader read_batch puts on its input, and of the input
\* buffer the zstd decoder puts on it
DEFAULT_BUF_SIZE == 8192
ZSTD_IN_SIZE == 131075

\* where a buffered reader of capacity cap leaves a source of total bytes it
\* started to read at pos, when need bytes of the source were asked for: it
\* fetches up to cap bytes whenever its buffer is empty, and what it fetched and
\* did not hand out is dropped with it
read_ahead(pos, need, cap, total) ==
    Min(total, pos + cap * (((IF need = 0 THEN 1 ELSE need) + cap - 1) \div cap))

\* a fault of read_batch: the input is never put through the decompressor
read_batch_never_decompressing(src, pos, compress) ==
    LET short(body) == IF body.err = "IoError" THEN 1 ELSE 0
        decoded(body) ==
            [err |-> body.err,
             val |-> body.val,
             pos |-> read_ahead(pos, body.pos + short(body), DEFAULT_BUF_SIZE, Len(src))]
    IN decoded(read_batch_body(Bytes(src, pos, Len(src) - pos)))

\* read_batch(input, compress) on the source bytes src read from pos: the
\* error, the batch, and the position the source is left at
read_batch(src, pos, compress) ==
    LET short(body) == IF body.err = "IoError" THEN 1 ELSE 0
        decoded(dec, body) ==
            [err |-> body.err,
             val |-> body.val,
             pos |-> IF compress
                     THEN read_ahead(pos, dec.used + short(body), ZSTD_IN_SIZE, Len(src))
                     ELSE read_ahead(pos, body.pos + short(body), DEFAULT_BUF_SIZE, Len(src))]
        opened(dec) == decoded(dec, read_batch_body(dec.out))
        on(avail) ==
            opened(IF compress THEN zstd_decode(avail)
                   ELSE [err |-> "", out |-> avail, used |-> 0])
    IN on(Bytes(src, pos, Len(src) - pos))

\* ------------------------------------------------------------ input batches
\* field names
NameA == <<97>>
NameB == <<98>>
NameItem == <<105, 116, 101, 109>>
Utc == <<85, 84, 67>>

Int32List == List(Field(NameItem, Leaf("Int32"), TRUE))
Entries == Field(<<101>>, Struct(<<Field(<<107>>, Leaf("Utf8"), FALSE),
                                   Field(<<118>>, Leaf("Int32"), TRUE)>>), FALSE)

\* the column types batches are built of
LeafTypes ==
    <<Leaf("Null"), Leaf("Boolean"), Leaf("Int8"), Leaf("Int32"), Leaf("UInt64"),
      Leaf("Float64"), Decimal128(10, 2), Leaf("Date32"), Timestamp("Microsecond", <<>>),
      Timestamp("Millisecond", <<Utc>>), Leaf("Utf8"), Leaf("Binary")>>

NestedTypes ==
    <<Int32List,
      List(Field(NameItem, Leaf("Utf8"), TRUE)),
      List(Field(NameItem, Int32List, TRUE)),
      List(Field(NameItem, Timestamp("Second", <<Utc>>), TRUE)),
      Map(Entries, FALSE),
      Struct(<<Field(NameA, Leaf("Boolean"), TRUE), Field(NameB, Leaf("Int32"), TRUE)>>),
      Struct(<<Field(NameA, Int32List, TRUE), Field(NameB, Leaf("Utf8"), FALSE)>>),
      List(Field(NameItem, Struct(<<Field(NameA, Leaf("Int32"), TRUE)>>), TRUE))>>

UnsupportedTypes ==
    <<LargeList(Field(NameItem, Leaf("Int32"), TRUE)), FixedSizeBinary(2), Interval("DayTime"),
      List(Field(NameItem, FixedSizeBinary(2), TRUE))>>

Range(seq) == {seq[i] : i \in 1..Len(seq)}

\* the schemas of the input batches: one nullable column of each type, some
\* non-nullable columns, the three columns of the codec's own test, no column
\* at all, and nine columns of mixed nullability
Schemas ==
    {<<Field(NameA, t, TRUE)>> : t \in Range(LeafTypes) \cup Range(NestedTypes) \cup Range(UnsupportedTypes)}
    \cup {<<Field(NameA, t, FALSE)>> : t \in {Leaf("Int32"), Leaf("Utf8"), Int32List}}
    \cup {<<Field(NameA, Leaf("Utf8"), TRUE), Field(NameB, Leaf("UInt64"), TRUE),
            Field(NameItem, Leaf("Boolean"), TRUE)>>,
          <<>>,
          [j \in 1..9 |-> Field(NameA, IF j % 2 = 0 THEN Leaf("Int8") ELSE Leaf("Boolean"),
                                j % 3 # 0)]}

\* the number of items of the i-th row of a list or map column
ItemCount(i) == (i + 1) % (MaxItems + 1)

\* the value of the i-th leaf cell: its bytes differ from cell to cell and from
\* byte to byte
CellBytes(k, i) ==
    CASE k = "Boolean" -> <<i % 2>>
      [] k \in PrimitiveKinds -> [b \in 1..ByteWidth(k) |-> (i * b + 16 * (b - 1)) % 256]
      [] k \in {"Utf8", "Binary"} -> [b \in 1..(i % 3) |-> 96 + ((i + b) % 26)]
      [] k = "FixedSizeBinary" -> <<i, i + 1>>
      [] k = "Interval" -> [b \in 1..8 |-> (i + b) % 256]
      [] OTHER -> <<>>

RECURSIVE cell_rows(_, _, _, _, _)
\* the rows with the given cell numbers of a column of the given type; row_nulls
\* says which cells of a top-level column are null, item_nulls which cells below
cell_rows(data_type, cells, nullable, row_nulls, item_nulls) ==
    LET k == data_type.k
        below(t, cs, nl) == cell_rows(t, cs, nl, item_nulls, item_nulls)
        items(i) == [e \in 1..ItemCount(i) |-> (i - 1) * MaxItems + e] IN
    [c \in 1..Len(cells) |->
        LET i == cells[c] IN
        IF k = "Null" \/ (nullable /\ row_nulls[((i - 1) % Len(row_nulls)) + 1]) THEN NullRow
        ELSE CASE k \in {"List", "LargeList"} ->
                    Row(FALSE, <<>>, below(data_type.fields[1].data_type, items(i),
                                           data_type.fields[1].nullable))
               [] k = "Map" ->
                    LET kv == data_type.fields[1].data_type.fields
                        keys == below(kv[1].data_type, items(i), FALSE)
                        vals == below(kv[2].data_type, items(i), kv[2].nullable) IN
                    Row(FALSE, <<>>, [e \in 1..ItemCount(i) |-> Row(FALSE, <<>>, <<keys[e], vals[e]>>)])
               [] k = "Struct" ->
                    Row(FALSE, <<>>,
                        [j \in 1..Len(data_type.fields) |->
                            below(data_type.fields[j].data_type, <<i + j>>,
                                  data_type.fields[j].nullable)[1]])
               [] OTHER -> Row(FALSE, CellBytes(k, i), <<>>)]

\* the batch of n rows of a schema under a pattern of nulls; column j starts at
\* cell j
make_batch(schema, n, row_nulls, item_nulls) ==
    RecordBatch(schema,
                [j \in 1..Len(schema) |->
                    from_rows(schema[j].data_type,
                              cell_rows(schema[j].data_type, [i \in 1..n |-> i + j - 1],
                                        schema[j].nullable, row_nulls, item_nulls))],
                n)

InputBatches ==
    {make_batch(schema, n, row_nulls, item_nulls) :
        schema \in Schemas, n \in {0, MaxRows},
        row_nulls \in [1..MaxRows -> BOOLEAN], item_nulls \in [1..(MaxItems + 1) -> BOOLEAN]}

\* the batches written back to back into one stream
StreamBatches ==
    {make_batch(schema, MaxRows, row_nulls, <<FALSE>>) :
        schema \in {<<Field(NameA, Leaf("Int32"), TRUE)>>, <<Field(NameA, Leaf("Utf8"), TRUE)>>},
        row_nulls \in [1..MaxRows -> BOOLEAN]}

\* ------------------------------------------- inputs of the array, scalar and
\* data-type codecs
\* columns of MaxRows + 1 rows whose first rows have items, and their slices that
\* start after the first row: such a slice starts inside the validity bitmap, the
\* values, the offsets and the child arrays
OffsetArrays ==
    LET n == MaxRows + 1
        cells == [i \in 1..n |-> ((i + 1) % n) + 1]
        column(t, row_nulls, item_nulls) ==
            from_rows(t, cell_rows(t, cells, TRUE, row_nulls, item_nulls)) IN
    {slice(column(t, row_nulls, item_nulls), w[1], w[2]) :
        t \in Range(LeafTypes) \cup Range(NestedTypes),
        row_nulls \in [1..n -> BOOLEAN], item_nulls \in [1..(MaxItems + 1) -> BOOLEAN],
        w \in {x \in (1..MaxRows) \X (1..MaxRows) : x[1] + x[2] <= n}}

\* the columns of the one-column input batches, whole and sliced, and the
\* slices that start inside every buffer
ArrayInputs ==
    LET whole == {b.columns[1] : b \in {x \in InputBatches : Len(x.columns) = 1}} IN
    whole \cup {slice(a, 1, a.len - 1) : a \in {x \in whole : x.len > 0}} \cup OffsetArrays

LeafScalar(data_type, i) == Scalar(data_type, FALSE, CellBytes(data_type.k, i), <<>>)
NoneScalar(data_type) == Scalar(data_type, TRUE, <<>>, <<>>)
ListScalar(field, items) == Scalar(List(field), FALSE, <<>>, items)
StructScalar(fields, items) == Scalar(Struct(fields), FALSE, <<>>, items)

\* the scalar of the entry with key cell i of a map
EntryScalar(i) ==
    StructScalar(Entries.data_type.fields,
                 <<LeafScalar(Leaf("Utf8"), i),
                   IF i % 2 = 0 THEN NoneScalar(Leaf("Int32")) ELSE LeafScalar(Leaf("Int32"), i)>>)

\* a Map scalar: the entry-list scalar it holds, and the sorted flag
MapScalar(entries, sorted) ==
    Scalar(Map(Entries, sorted), FALSE, <<>>, <<ListScalar(Entries, entries)>>)

ScalarLeafTypes ==
    {Leaf("Boolean"), Leaf("Int8"), Leaf("Int16"), Leaf("Int32"), Leaf("Int64"),
     Leaf("UInt8"), Leaf("UInt64"), Leaf("Float32"), Leaf("Float64"), Decimal128(10, 2),
     Leaf("Date32"), Leaf("Date64"), Leaf("Utf8"), Leaf("Binary")}

UnsupportedScalarTypes ==
    {Timestamp("Second", <<>>), Timestamp("Millisecond", <<Utc>>), FixedSizeBinary(2),
     Interval("DayTime"), LargeList(Field(NameItem, Leaf("Int32"), TRUE))}

ScalarInputs ==
    {NoScalar}
    \cup {LeafScalar(t, i) : t \in ScalarLeafTypes, i \in 0..MaxItems}
    \cup {NoneScalar(t) : t \in ScalarLeafTypes \cup UnsupportedScalarTypes
                              \cup {Int32List, Struct(<<Field(NameA, Leaf("Utf8"), TRUE)>>)}}
    \cup {LeafScalar(t, 1) : t \in UnsupportedScalarTypes}
    \cup {Scalar(Leaf("Utf8"), FALSE, <<195, 169, 97>>, <<>>)}
    \cup {ListScalar(Field(NameItem, t, TRUE),
                     [e \in 1..n |-> IF e = 2 THEN NoneScalar(t) ELSE LeafScalar(t, e)]) :
             t \in {Leaf("Int32"), Leaf("Utf8"), Leaf("Boolean")}, n \in 0..(MaxItems + 1)}
    \cup {ListScalar(Field(NameItem, Int32List, TRUE),
                     <<ListScalar(Int32List.fields[1], <<LeafScalar(Leaf("Int32"), 1)>>),
                       NoneScalar(Int32List),
                       ListScalar(Int32List.fields[1], <<>>)>>),
          ListScalar(Field(NameItem, Timestamp("Second", <<>>), TRUE),
                     <<LeafScalar(Timestamp("Second", <<>>), 1)>>),
          StructScalar(<<>>, <<>>),
          StructScalar(<<Field(NameA, Leaf("Boolean"), TRUE), Field(NameB, Int32List, TRUE)>>,
                       <<LeafScalar(Leaf("Boolean"), 1),
                         ListScalar(Int32List.fields[1], <<LeafScalar(Leaf("Int32"), 2)>>)>>),
          StructScalar(<<Field(NameA, Leaf("Boolean"), TRUE), Field(NameB, Int32List, TRUE)>>,
                       <<NoneScalar(Leaf("Boolean")), NoneScalar(Int32List)>>)}
    \cup {MapScalar([e \in 1..n |-> EntryScalar(e)], sorted) :
             n \in 0..(MaxItems + 1), sorted \in BOOLEAN}
    \cup {Scalar(Map(Entries, FALSE), FALSE, <<>>, <<NoneScalar(List(Entries))>>)}

DataTypeInputs ==
    Range(LeafTypes) \cup Range(NestedTypes) \cup Range(UnsupportedTypes)
    \cup {Leaf(k) : k \in PrimitiveKinds \ {"Decimal128", "Timestamp"}}
    \cup {Timestamp(u, tz) : u \in Range(TimeUnits), tz \in {<<>>, <<Utc>>}}
    \cup {Interval(u) : u \in Range(IntervalUnits)}
    \cup {Decimal128(38, 10), Decimal128(5, -2), FixedSizeBinary(70), Struct(<<>>),
          Map(Entries, TRUE),
          Map(Field(NameA, Struct(<<Field(NameA, Leaf("Int32"), FALSE),
                                    Field(NameB, Map(Entries, FALSE), TRUE)>>), FALSE), FALSE),
          LargeList(Field(NameItem, Struct(<<Field(NameA, Leaf("Int32"), TRUE)>>), FALSE)),
          Struct(<<Field(NameA, LargeList(Field(NameItem, Leaf("Utf8"), TRUE)), TRUE),
                   Field(NameB, List(Field(NameItem, Leaf("Utf8"), FALSE)), FALSE)>>),
          Struct([j \in 1..(MaxItems + 1) |->
                     Field([b \in 1..j |-> 96 + b], Leaf("Int64"), j % 2 = 0)])}

\* ---- sources that do not hold what the reader is told they hold ----
\* the source of a read_* call: its bytes, the data type and row count the caller
\* declares (read_array, read_scalar), the compress flag (read_batch), and how the
\* bytes came about
Source(how, bytes, data_type, num_rows, compress_flag) ==
    [how |-> how, bytes |-> bytes, data_type |-> data_type, num_rows |-> num_rows,
     compress |-> compress_flag]

\* the streams that end before the value does
Truncated(bytes) == {SubSeq(bytes, 1, n) : n \in 0..(Len(bytes) - 1)}

\* a Map whose entries field is not a Struct
MapOfInt32 == Map(Field(NameItem, Leaf("Int32"), TRUE), FALSE)

\* a Struct of n Boolean fields, and the bytes write_scalar makes of a Struct
\* scalar with n Boolean children
BooleanStruct(n) == Struct([j \in 1..n |-> Field(NameA, Leaf("Boolean"), TRUE)])

BooleanStructBytes(n) ==
    write_scalar(StructScalar(BooleanStruct(n).fields,
                              [j \in 1..n |-> LeafScalar(Leaf("Boolean"), j)])).out

MalformedArrays ==
    UNION {{Source("truncated", bytes, a.data_type, a.len, FALSE) :
                bytes \in Truncated(write_array(a).out)} :
           a \in {x \in ArrayInputs : x.offset = 0 /\ x.len = MaxRows
                                         /\ x.data_type.k \in ArrayKinds}}
    \cup {Source("long length", <<0, 1, 9, 104>>, Leaf("Utf8"), 2, FALSE),
          Source("long length", <<0, 3, 0, 1, 0, 0, 0>>, Int32List, 1, FALSE)}
    \cup {Source("map entries", <<0>> \o Zeros(n) \o <<0>>, MapOfInt32, n, FALSE) :
             n \in 0..MaxRows}

MalformedScalars ==
    UNION {{Source("truncated", bytes, v.data_type, 0, FALSE) :
                bytes \in Truncated(write_scalar(v).out)} :
           v \in {x \in ScalarInputs : x.data_type.k \in ScalarKinds /\ ~x.null}}
    \cup {Source("long length", <<4, 97>>, t, 0, FALSE) : t \in {Leaf("Utf8"), Leaf("Binary")}}
    \cup {Source("child count", BooleanStructBytes(c[1]), BooleanStruct(c[2]), 0, FALSE) :
             c \in {x \in (0..(MaxItems + 1)) \X (0..(MaxItems + 1)) : x[1] # x[2]}}

MalformedDataTypes ==
    UNION {{Source("truncated", bytes, Leaf("Null"), 0, FALSE) :
                bytes \in Truncated(write_data_type(t).out)} :
           t \in DataTypeInputs}
    \cup {Source("long length", <<9, KindTags["Int32"]>>, Leaf("Null"), 0, FALSE),
          Source("payload", <<1, 10>>, Leaf("Null"), 0, FALSE),
          Source("payload", <<2, KindTags["Timestamp"], 9>>, Leaf("Null"), 0, FALSE)}

\* the record of a batch of n rows whose only column is declared as MapOfInt32
MapOfInt32Record(n) ==
    LenBytes(1) \o LenBytes(n) \o write_data_type(MapOfInt32).out \o <<1>>
        \o <<0>> \o Zeros(n) \o <<0>>

MalformedBatches ==
    UNION {{Source("truncated", bytes, Leaf("Null"), 0, x[2]) :
                bytes \in Truncated(write_batch(x[1], x[2], <<>>).out)} :
           x \in StreamBatches \X BOOLEAN}
    \cup {Source("map entries", MapOfInt32Record(n), Leaf("Null"), 0, FALSE) : n \in 0..MaxRows}
    \cup {Source("map entries", zstd_encode(MapOfInt32Record(n)), Leaf("Null"), 0, TRUE) :
             n \in 0..MaxRows}

\* what is in the sink before a value is written, and in the source after it
Prefix == <<7>>
Trailer == <<2, 1, 0>>

\* ------------------------------------------------------ the batch codec runs
VARIABLES
    base,               \* the batch the caller built
    window,             \* the slice of base it hands to write_batch
    batch,              \* the batch it hands to write_batch: base.slice(window)
    compress,           \* the compress flag of every call of the run
    max_records,        \* the number of write_batch calls of the run
    sink,               \* the bytes of the sink, later the source
    uncompressed_size,  \* the caller's size variable
    records,            \* per write_batch call: its batch, its bytes in the sink, its result
    src_pos,            \* the read position of the source
    reads,              \* per read_batch call: the source it got and its result
    codec,              \* a run of the array, scalar or data-type codec on one value
    calls,              \* the write_batch calls that run at the same time, one per thread
    counters,           \* the Arc<AtomicUsize> byte counters allocated so far
    exec,               \* the ShuffleWriterExec the calls are made on
    repartitioners,     \* the shuffle repartitioners created so far
    consumers,          \* the repartitioners registered with the MemManager, by index
    exec_calls          \* per call on the operator: its arguments and its result

batch_vars == <<base, window, batch, compress, max_records, sink, uncompressed_size, records,
                src_pos, reads>>

conc_vars == <<calls, counters>>

shuffle_vars == <<exec, repartitioners, consumers, exec_calls>>

vars == <<batch_vars, codec, conc_vars, shuffle_vars>>

\* no ShuffleWriterExec in the run
NoExec == [partitioning |-> [kind |-> "", count |-> 0], output_data_file |-> "",
           output_index_file |-> "", metrics |-> {}]

NoShuffle ==
    /\ exec = NoExec
    /\ repartitioners = <<>>
    /\ consumers = <<>>
    /\ exec_calls = <<>>

\* the arguments of write_bits_buffer: a buffer of MaxRows bytes and a range of
\* bits in it, as a NullBuffer or the values of a BooleanArray hands them over
BitsInputs ==
    {[buffer |-> b, bits_offset |-> x[1], bits_len |-> x[2]] :
        b \in [1..MaxRows -> {0, 90, 165, 255}],
        x \in {y \in (0..(8 * MaxRows)) \X (0..(8 * MaxRows)) : y[1] + y[2] <= 8 * MaxRows}}

\* a run of a codec: the value, how far the run got, the result of the write_*
\* call and of the read_* call
CodecRun(kind, value) ==
    [kind |-> kind, value |-> value, stage |-> "input",
     written |-> WOk(<<>>), read |-> ROk(<<>>, 0)]

InitRun(batches, n) ==
    /\ base \in batches
    /\ window = [offset |-> 0, length |-> base.num_rows]
    /\ batch = base
    /\ compress \in BOOLEAN
    /\ max_records = n
    /\ sink = <<>>
    \* the caller's size variable holds a value from before the run, one that no
    \* record of the run has as its size
    /\ uncompressed_size = 1000
    /\ records = <<>>
    /\ src_pos = 0
    /\ reads = <<>>
    /\ NoShuffle
    /\ codec = CodecRun("none", <<>>)
    /\ calls = <<>>
    /\ counters = <<>>

\* one record per run, of any input batch
Init == InitRun(InputBatches, 1)

\* several records per run
InitStream == InitRun(StreamBatches, MaxRecords)

\* the caller slices its batch before it writes it
SliceBatch(offset, length) ==
    /\ Len(records) < max_records
    /\ reads = <<>>
    /\ offset + length <= base.num_rows
    /\ window' = [offset |-> offset, length |-> length]
    /\ window' # window
    /\ batch' = slice_batch(base, offset, length)
    /\ UNCHANGED <<base, compress, max_records, sink, uncompressed_size, records, src_pos,
                   reads, codec, conc_vars, shuffle_vars>>

\* write_batch(&batch, &mut sink, compress, None | Some(&mut uncompressed_size))
WriteBatch(want_size) ==
    /\ Len(records) < max_records
    /\ reads = <<>>
    /\ LET r == write_batch(batch, compress,
                            IF want_size THEN <<uncompressed_size>> ELSE <<>>) IN
        /\ sink' = sink \o r.out
        /\ uncompressed_size' = IF want_size THEN r.uncompressed_size[1] ELSE uncompressed_size
        /\ records' = Append(records,
                             [batch |-> batch, window |-> window,
                              start |-> Len(sink), end |-> Len(sink) + Len(r.out),
                              err |-> r.err, want_size |-> want_size,
                              size_before |-> uncompressed_size,
                              size |-> uncompressed_size',
                              failure |-> write_batch_failure(batch),
                              context |-> write_batch_context(batch)])
    /\ UNCHANGED <<base, window, batch, compress, max_records, src_pos, reads, codec,
                   conc_vars, shuffle_vars>>

\* read_batch(&mut source, compress) on a source that holds the first `limit`
\* bytes of the sink: all of it, the bytes up to the end of a record, or (of a
\* single record) a truncated copy
ReadBatch(limit) ==
    /\ records # <<>>
    /\ Len(reads) < Len(records)
    /\ src_pos <= limit
    /\ Len(records) > 1 => \E i \in 1..Len(records) : limit = records[i].end
    /\ LET r == read_batch(SubSeq(sink, 1, limit), src_pos, compress)
           inp == read_batch_input(SubSeq(sink, 1, limit), src_pos, compress) IN
        /\ reads' = Append(reads, [from |-> src_pos, limit |-> limit,
                                   err |-> r.err, val |-> r.val, pos |-> r.pos,
                                   failure |-> read_batch_failure(inp),
                                   context |-> read_batch_context(inp)])
        /\ src_pos' = r.pos
    /\ UNCHANGED <<base, window, batch, compress, max_records, sink, uncompressed_size,
                   records, codec, conc_vars, shuffle_vars>>

Next ==
    \/ \E offset \in 0..MaxRows, length \in 0..MaxRows : SliceBatch(offset, length)
    \/ \E want_size \in BOOLEAN : WriteBatch(want_size)
    \/ \E limit \in 0..Len(sink) : ReadBatch(limit)

Spec == Init /\ [][Next]_vars

SpecStream == InitStream /\ [][Next]_vars

\* ------------------------------------- the array, scalar and data-type codec runs
InitCodec ==
    /\ base = NoBatch
    /\ window = [offset |-> 0, length |-> 0]
    /\ batch = NoBatch
    /\ compress = FALSE
    /\ max_records = 0
    /\ sink = Prefix
    /\ uncompressed_size = 0
    /\ records = <<>>
    /\ src_pos = Len(Prefix)
    /\ reads = <<>>
    /\ NoShuffle
    /\ calls = <<>>
    /\ counters = <<>>
    /\ \/ \E array \in ArrayInputs : codec = CodecRun("array", array)
       \/ \E value \in ScalarInputs : codec = CodecRun("scalar", value)
       \/ \E data_type \in DataTypeInputs : codec = CodecRun("data_type", data_type)
       \/ \E source \in MalformedArrays : codec = CodecRun("malformed array", source)
       \/ \E source \in MalformedScalars : codec = CodecRun("malformed scalar", source)
       \/ \E source \in MalformedDataTypes : codec = CodecRun("malformed data_type", source)
       \/ \E source \in MalformedBatches : codec = CodecRun("malformed batch", source)
       \/ \E bits \in BitsInputs : codec = CodecRun("bits", bits)

\* the write_* call of a run puts its bytes in the sink
Write(kind, result) ==
    /\ codec.kind = kind
    /\ codec.stage = "input"
    /\ codec' = [codec EXCEPT !.stage = "written", !.written = result]
    /\ sink' = sink \o result.out
    /\ UNCHANGED <<base, window, batch, compress, max_records, uncompressed_size, records,
                   src_pos, reads, conc_vars, shuffle_vars>>

\* the read_* call of a run reads the source: the sink and what follows it
Read(kind, result) ==
    /\ codec.kind = kind
    /\ codec.stage = "written"
    /\ codec' = [codec EXCEPT !.stage = "read", !.read = result]
    /\ src_pos' = result.pos
    /\ UNCHANGED <<base, window, batch, compress, max_records, sink, uncompressed_size,
                   records, reads, conc_vars, shuffle_vars>>

WriteArray == Write("array", write_array(codec.value))

ReadArray ==
    Read("array", read_array(sink \o Trailer, src_pos, codec.value.data_type, codec.value.len))

WriteScalar == Write("scalar", write_scalar(codec.value))

ReadScalar == Read("scalar", read_scalar(sink \o Trailer, src_pos, codec.value.data_type))

WriteDataType == Write("data_type", write_data_type(codec.value))

ReadDataType == Read("data_type", read_data_type(sink \o Trailer, src_pos))

WriteBits ==
    Write("bits", write_bits_buffer(codec.value.buffer, codec.value.bits_offset,
                                    codec.value.bits_len))

ReadBits == Read("bits", read_bits_buffer(sink \o Trailer, src_pos, codec.value.bits_len))

\* a read_* call on a source that nothing of this run wrote: the bytes of the
\* run follow what the source held before
ReadMalformed(kind, result) ==
    /\ codec.kind = kind
    /\ codec.stage = "input"
    /\ codec' = [codec EXCEPT !.stage = "read", !.read = result]
    /\ src_pos' = result.pos
    /\ UNCHANGED <<base, window, batch, compress, max_records, sink, uncompressed_size,
                   records, reads, conc_vars, shuffle_vars>>

ReadMalformedArray ==
    ReadMalformed("malformed array",
                  read_array(sink \o codec.value.bytes, src_pos, codec.value.data_type,
                             codec.value.num_rows))

ReadMalformedScalar ==
    ReadMalformed("malformed scalar",
                  read_scalar(sink \o codec.value.bytes, src_pos, codec.value.data_type))

ReadMalformedDataType ==
    ReadMalformed("malformed data_type", read_data_type(sink \o codec.value.bytes, src_pos))

ReadMalformedBatch ==
    ReadMalformed("malformed batch",
                  read_batch(sink \o codec.value.bytes, src_pos, codec.value.compress))

NextCodec ==
    \/ WriteArray
    \/ ReadArray
    \/ WriteScalar
    \/ ReadScalar
    \/ WriteDataType
    \/ ReadDataType
    \/ WriteBits
    \/ ReadBits
    \/ ReadMalformedArray
    \/ ReadMalformedScalar
    \/ ReadMalformedDataType
    \/ ReadMalformedBatch

SpecCodec == InitCodec /\ [][NextCodec]_vars

\* --------------------------------- write_batch calls that run at the same time
\* Every call has its own batch, sink and size variable, and asks for the size.
\* A step of a call is
\* one write of write_batch through its own writers; what a step does to the
\* writers is local to the call, the byte counter is an atomic that is added to
\* in the same step.
ConcurrentBatches ==
    {make_batch(<<Field(NameA, t, TRUE)>>, MaxRows, [i \in 1..MaxRows |-> i = 1], <<FALSE>>) :
        t \in {Leaf("Int32"), Leaf("Utf8"), FixedSizeBinary(2)}}

\* a call that has not started: its arguments, its place in write_batch, the
\* counter it holds, the bytes its writer took, its sink and its size variable
Call(b, compress_flag, want_size) ==
    [batch |-> b, compress |-> compress_flag, want_size |-> want_size, pc |-> "start",
     next |-> 1, counter |-> 0, inner |-> <<>>, sink |-> <<>>, size |-> 0, err |-> ""]

InitConcurrent ==
    /\ base = NoBatch
    /\ window = [offset |-> 0, length |-> 0]
    /\ batch = NoBatch
    /\ compress = FALSE
    /\ max_records = 0
    /\ sink = <<>>
    /\ uncompressed_size = 0
    /\ records = <<>>
    /\ src_pos = 0
    /\ reads = <<>>
    /\ NoShuffle
    /\ codec = CodecRun("none", <<>>)
    /\ calls \in [1..MaxCalls ->
                    {Call(b, c, TRUE) : b \in ConcurrentBatches, c \in BOOLEAN}]
    /\ counters = <<>>

\* a fault of new_counter: one static counter for every call
static_counter(allocated) == 1

\* Arc::new(AtomicUsize::new(0)): a counter no earlier call holds
new_counter(allocated) == Len(allocated) + 1

\* the call sets up its counter and its writers
Begin(c) ==
    /\ calls[c].pc = "start"
    /\ counters' = Append(counters, 0)
    /\ calls' = [calls EXCEPT ![c].pc = "write", ![c].counter = new_counter(counters)]
    /\ UNCHANGED <<batch_vars, codec, shuffle_vars>>

\* one write of the call: the writer takes the bytes and, when a size is asked
\* for, the CountWriter adds their number to the counter of the call; an error
\* ends the call
WriteItem(c) ==
    /\ calls[c].pc = "write"
    /\ LET steps == write_batch_steps(calls[c].batch)
            done(w) ==
                /\ calls' = [calls EXCEPT
                                ![c].inner = @ \o w.out,
                                ![c].err = w.err,
                                ![c].next = @ + 1,
                                ![c].pc = IF w.err # "" THEN "drop"
                                          ELSE IF calls[c].next = Len(steps) THEN "store"
                                          ELSE "write"]
                /\ counters' = IF calls[c].want_size
                               THEN [counters EXCEPT ![calls[c].counter] = @ + Len(w.out)]
                               ELSE counters
       IN done(steps[calls[c].next])
    /\ UNCHANGED <<batch_vars, codec, shuffle_vars>>

\* *uncompressed_size = num_bytes_written_uncompressed.load(SeqCst)
StoreSize(c) ==
    /\ calls[c].pc = "store"
    /\ calls' = [calls EXCEPT ![c].pc = "drop",
                              ![c].size = IF calls[c].want_size
                                          THEN counters[calls[c].counter] ELSE @]
    /\ UNCHANGED <<batch_vars, codec, shuffle_vars, counters>>

\* the call returns: its writer is dropped, the frame of the compressor or the
\* buffered bytes reach the sink
Return(c) ==
    /\ calls[c].pc = "drop"
    /\ calls' = [calls EXCEPT ![c].pc = "done",
                              ![c].sink = @ \o (IF calls[c].compress
                                                THEN zstd_encode(calls[c].inner)
                                                ELSE calls[c].inner)]
    /\ UNCHANGED <<batch_vars, codec, shuffle_vars, counters>>

NextConcurrent ==
    \/ \E c \in 1..MaxCalls : Begin(c)
    \/ \E c \in 1..MaxCalls : WriteItem(c)
    \/ \E c \in 1..MaxCalls : StoreSize(c)
    \/ \E c \in 1..MaxCalls : Return(c)

SpecConcurrent == InitConcurrent /\ [][NextConcurrent]_vars

\* ------------------------------------------------------ ShuffleWriterExec
\* datafusion Partitioning: RoundRobinBatch(n), Hash(exprs, n) and
\* UnknownPartitioning(n); the expressions of Hash play no part in execute
Partitioning(kind, count) == [kind |-> kind, count |-> count]

Partitionings ==
    {Partitioning(kind, count) :
        kind \in {"RoundRobinBatch", "Hash", "UnknownPartitioning"}, count \in 0..MaxPartitions}

\* Partitioning::partition_count
partition_count(p) == p.count

\* the data and index files an operator is configured with
OutputFiles == {<<"a.data", "a.index">>, <<"b.data", "b.index">>}

\* ShuffleWriterExec::try_new: the fields as given and an empty metrics set
ShuffleWriterExec(partitioning, output_data_file, output_index_file) ==
    [partitioning |-> partitioning, output_data_file |-> output_data_file,
     output_index_file |-> output_index_file, metrics |-> {}]

\* SingleShuffleRepartitioner::new(output_data_file, output_index_file, ..)
SingleShuffleRepartitioner(output_data_file, output_index_file) ==
    [kind |-> "single", partition |-> <<>>, output_data_file |-> output_data_file,
     output_index_file |-> output_index_file, partitioning |-> <<>>]

\* SortShuffleRepartitioner::new(partition, output_data_file, output_index_file,
\* partitioning, ..)
SortShuffleRepartitioner(partition, output_data_file, output_index_file, partitioning) ==
    [kind |-> "sort", partition |-> <<partition>>, output_data_file |-> output_data_file,
     output_index_file |-> output_index_file, partitioning |-> <<partitioning>>]

\* a fault of the match of execute: the Hash arm comes first
repartitioner_arm_hash_first(partitioning) ==
    IF partitioning.kind = "Hash" THEN "sort"
    ELSE IF partition_count(partitioning) = 1 THEN "single"
    ELSE "unreachable"

\* the arm the match of execute takes: the arms are tried in order
repartitioner_arm(partitioning) ==
    IF partition_count(partitioning) = 1 THEN "single"
    ELSE IF partitioning.kind = "Hash" THEN "sort"
    ELSE "unreachable"

\* the metrics execute registers for a partition: the data size and the output
\* time before the match, the sort time in the Hash arm, the baseline metrics in
\* the single-partition arm or, after the input was executed, for the stream
registered_metrics(arm, partition, input_result) ==
    {<<"data_size", partition>>, <<"output_io_time", partition>>}
        \cup (IF arm = "sort" THEN {<<"sort_time", partition>>} ELSE {})
        \cup (IF arm = "single" \/ (arm = "sort" /\ input_result = "Ok")
              THEN {<<"baseline", partition>>} ELSE {})

InitShuffle ==
    /\ base = NoBatch
    /\ window = [offset |-> 0, length |-> 0]
    /\ batch = NoBatch
    /\ compress = FALSE
    /\ max_records = 0
    /\ sink = <<>>
    /\ uncompressed_size = 0
    /\ records = <<>>
    /\ src_pos = 0
    /\ reads = <<>>
    /\ codec = CodecRun("none", <<>>)
    /\ calls = <<>>
    /\ counters = <<>>
    /\ \E p \in Partitionings, files \in OutputFiles :
          exec = ShuffleWriterExec(p, files[1], files[2])
    /\ repartitioners = <<>>
    /\ consumers = <<>>
    /\ exec_calls = <<>>

\* execute(partition, context): the match builds the repartitioner (the Hash arm
\* registers it with the MemManager) or panics; then the input is executed, and
\* an error of it is returned; otherwise the stream that runs the repartitioner
\* is returned
Execute(partition, input_result) ==
    /\ Len(exec_calls) < MaxExecutes
    /\ LET arm == repartitioner_arm(exec.partitioning)
           id == Len(repartitioners) + 1
           created ==
               CASE arm = "single" ->
                        <<SingleShuffleRepartitioner(exec.output_data_file,
                                                     exec.output_index_file)>>
                 [] arm = "sort" ->
                        <<SortShuffleRepartitioner(partition, exec.output_data_file,
                                                   exec.output_index_file, exec.partitioning)>>
                 [] OTHER -> <<>>
           outcome == IF arm = "unreachable" THEN "panic" ELSE input_result
       IN /\ repartitioners' = repartitioners \o created
          /\ consumers' = IF arm = "sort" THEN Append(consumers, id) ELSE consumers
          /\ exec' = [exec EXCEPT !.metrics = @ \cup registered_metrics(arm, partition,
                                                                    input_result)]
          /\ exec_calls' = Append(exec_calls,
                                  [op |-> "execute", partition |-> partition, on |-> exec,
                                   outcome |-> outcome,
                                   stream |-> IF outcome = "Ok" THEN <<id>> ELSE <<>>,
                                   created_from |-> Len(repartitioners),
                                   created_to |-> Len(repartitioners'),
                                   registered_from |-> Len(consumers),
                                   registered_to |-> Len(consumers')])
    /\ UNCHANGED <<batch_vars, codec, conc_vars>>

\* with_new_children(children): an operator with the same partitioning and files
\* and new metrics takes the place of this one, when there is one child
WithNewChildren(children) ==
    /\ Len(exec_calls) < MaxExecutes
    /\ exec' = IF children = 1
               THEN ShuffleWriterExec(exec.partitioning, exec.output_data_file,
                                      exec.output_index_file)
               ELSE exec
    /\ exec_calls' = Append(exec_calls,
                            [op |-> "with_new_children", partition |-> children, on |-> exec,
                             outcome |-> IF children = 1 THEN "Ok" ELSE "Err",
                             stream |-> <<>>,
                             created_from |-> Len(repartitioners),
                             created_to |-> Len(repartitioners),
                             registered_from |-> Len(consumers),
                             registered_to |-> Len(consumers)])
    /\ UNCHANGED <<batch_vars, codec, conc_vars, repartitioners, consumers>>

NextShuffle ==
    \/ \E partition \in 0..(MaxExecutes - 1), input_result \in {"Ok", "Err"} :
          Execute(partition, input_result)
    \/ \E children \in 0..2 : WithNewChildren(children)

SpecShuffle == InitShuffle /\ [][NextShuffle]_vars

\* ---------------------------------------------------------------- properties
\* the i-th read_batch call got a source that starts at the first byte of the
\* i-th record and holds all of it, and the record was written without error
WholeRecord(i) ==
    /\ i <= Len(reads)
    /\ records[i].err = ""
    /\ reads[i].from = records[i].start
    /\ reads[i].limit >= records[i].end

\* value-wise equality of batches: the row count and the rows of every column
SameBatch(got, want) ==
    got.num_rows = want.num_rows /\ batch_rows(got) = batch_rows(want)

RECURSIVE has_time_zone(_)
\* a Timestamp with a time zone is in the type tree
has_time_zone(data_type) ==
    \/ data_type.k = "Timestamp" /\ data_type.tz # <<>>
    \/ \E j \in 1..Len(data_type.fields) : has_time_zone(data_type.fields[j].data_type)

\* C1 (Round-trip identity): read_batch applied to the bytes write_batch made of
\* a batch of supported column types, with the same compress flag, returns a
\* batch with the same row count, null positions and values.
RoundTripIdentity ==
    \A i \in 1..Len(reads) :
        WholeRecord(i) =>
            reads[i].err = "" /\ SameBatch(reads[i].val, records[i].batch)

\* what holds of the round trip: it is the identity on the batches without a
\* Timestamp that carries a time zone
RoundTripIdentityWithoutTimeZone ==
    \A i \in 1..Len(reads) :
        (WholeRecord(i) /\ \A j \in 1..Len(records[i].batch.schema) :
                               ~has_time_zone(records[i].batch.schema[j].data_type)) =>
            reads[i].err = "" /\ SameBatch(reads[i].val, records[i].batch)

\* C2 (Slice transparency): the batch decoded from the record of b.slice(o, n)
\* holds rows o .. o+n-1 of b, column by column, whatever o is.
SliceTransparency ==
    \A i \in 1..Len(reads) :
        (WholeRecord(i) /\ records[i].window # [offset |-> 0, length |-> base.num_rows]) =>
            /\ reads[i].err = ""
            /\ reads[i].val.num_rows = records[i].window.length
            /\ batch_rows(reads[i].val) =
                  [j \in 1..Len(base.columns) |->
                      SubSeq(rows_of(base.columns[j]), records[i].window.offset + 1,
                             records[i].window.offset + records[i].window.length)]

\* C3 (Sequential records): k read_batch calls on the stream k write_batch calls
\* wrote return the k batches in order, and each call takes from the source the
\* bytes of its own record and no more.
SequentialRecords ==
    \A i \in 1..Len(reads) :
        ((\A j \in 1..Len(records) : records[j].err = "") /\ reads[i].limit = Len(sink)) =>
            /\ reads[i].err = ""
            /\ SameBatch(reads[i].val, records[i].batch)
            /\ reads[i].from = records[i].start
            /\ reads[i].pos = records[i].end

\* C4 (Uncompressed-size accuracy): the size a successful write_batch reports is
\* the number of bytes the same batch puts in the sink without compression;
\* without compression that is the number of bytes the call put in the sink.
UncompressedSizeAccuracy ==
    \A i \in 1..Len(records) :
        (records[i].want_size /\ records[i].err = "") =>
            /\ records[i].size = Len(write_batch(records[i].batch, FALSE, <<>>).out)
            /\ ~compress => records[i].size = records[i].end - records[i].start

\* a size was reported under compression, and the sink got another number of bytes
UncompressedSizeReported ==
    \E i \in 1..Len(records) :
        /\ compress /\ records[i].want_size /\ records[i].err = ""
        /\ records[i].batch.num_rows > 0
        /\ records[i].size # records[i].end - records[i].start
        /\ records[i].size # records[i].size_before

\* C5 (Compression transparency): what read_batch returns for the record of a
\* batch under the compress flag of the run is what it returns for the record of
\* the same batch under the other flag.
CompressionTransparency ==
    \A i \in 1..Len(reads) :
        WholeRecord(i) =>
            LET other == read_batch(write_batch(records[i].batch, ~compress, <<>>).out,
                                    0, ~compress) IN
            reads[i].err = other.err /\ reads[i].val = other.val

\* a compressed record of a batch with rows was read back
CompressedRecordRead ==
    \E i \in 1..Len(reads) :
        /\ compress /\ WholeRecord(i) /\ reads[i].err = ""
        /\ reads[i].val.num_rows > 0 /\ reads[i].val.columns # <<>>
        /\ SubSeq(sink, records[i].start + 1, records[i].end)
              # write_batch(records[i].batch, FALSE, <<>>).out

\* C8 (Nested-null preservation): the List, Map and Struct columns of a decoded
\* batch have their nulls, at the row level and at every depth below, where the
\* written columns have them, and the same values everywhere else.
NestedNullPreservation ==
    \A i \in 1..Len(reads) :
        WholeRecord(i) =>
            \A j \in 1..Len(records[i].batch.columns) :
                records[i].batch.schema[j].data_type.k \in {"List", "Map", "Struct"} =>
                    /\ reads[i].err = ""
                    /\ rows_of(reads[i].val.columns[j]) = rows_of(records[i].batch.columns[j])

\* C10 (All-or-nothing read): a read_batch call that fails returns no batch; it
\* fails when its source ends before the record does and when the record is what
\* a failed write_batch left; the batch of a call that succeeds has every column
\* of the record.
AllOrNothingRead ==
    \A i \in 1..Len(reads) :
        /\ reads[i].err # "" => reads[i].val = NoBatch
        /\ (reads[i].from = records[i].start /\ reads[i].limit < records[i].end) =>
                reads[i].err # ""
        /\ (reads[i].from = records[i].start /\ records[i].err # "") => reads[i].err # ""
        /\ (reads[i].err = "" /\ reads[i].from = records[i].start) =>
                /\ Len(reads[i].val.columns) = Len(records[i].batch.columns)
                /\ Len(reads[i].val.schema) = Len(records[i].batch.columns)

\* the source ended one byte before a record of several columns with rows did,
\* and the call failed
ReadFailedInLastColumn ==
    \E i \in 1..Len(reads) :
        /\ ~compress /\ records[i].err = "" /\ reads[i].from = records[i].start
        /\ reads[i].limit = records[i].end - 1
        /\ Len(records[i].batch.columns) > 1 /\ records[i].batch.num_rows > 0
        /\ reads[i].err # "" /\ reads[i].val = NoBatch

\* ---- the array, scalar and data-type codec runs ----
\* the run wrote its value without error and read it back
ReadBack(kind) == codec.kind = kind /\ codec.stage = "read" /\ codec.written.err = ""

\* C6 (Rejection): write_array and read_array given a data type, write_scalar and
\* read_scalar given a scalar kind, that they have no branch for fail with the
\* unsupported-type error, with no byte written to the sink and no byte taken
\* from the source.
Rejection ==
    /\ (codec.kind = "array" /\ codec.value.data_type.k \notin ArrayKinds) =>
        /\ codec.stage # "input" =>
              codec.written.err = "NotImplemented" /\ codec.written.out = <<>> /\ sink = Prefix
        /\ codec.stage = "read" =>
              codec.read.err = "NotImplemented" /\ src_pos = Len(Prefix)
    /\ (codec.kind = "scalar" /\ codec.value.data_type.k \notin ScalarKinds \cup {"Null", "Map"}) =>
        /\ codec.stage # "input" =>
              codec.written.err = "NotImplemented" /\ codec.written.out = <<>> /\ sink = Prefix
        /\ codec.stage = "read" =>
              codec.read.err = "NotImplemented" /\ src_pos = Len(Prefix)

\* an array with rows and a present scalar, of a type without a branch, went
\* through the write and the read call
RejectedArray ==
    /\ codec.kind = "array" /\ codec.stage = "read"
    /\ codec.value.data_type.k = "FixedSizeBinary" /\ codec.value.len > 0
    /\ codec.read.err = "NotImplemented"

\* C7 (Scalar round-trip): read_scalar applied to the bytes of write_scalar(v) and
\* the data type of v returns v and takes exactly the bytes written; a Map scalar
\* comes back with its entry list.
ScalarRoundTrip ==
    ReadBack("scalar") =>
        /\ codec.read.err = ""
        /\ codec.read.val = codec.value
        /\ codec.read.pos = Len(sink)

\* what holds of the scalar round trip: it is the identity on the scalars that
\* are not a Map
ScalarRoundTripWithoutMap ==
    (ReadBack("scalar") /\ codec.value.data_type.k # "Map") =>
        /\ codec.read.err = ""
        /\ codec.read.val = codec.value
        /\ codec.read.pos = Len(sink)

RECURSIVE AllNamesStripped(_)
\* a data type with the name of every field, at every depth, replaced by the
\* empty name
AllNamesStripped(data_type) ==
    [data_type EXCEPT !.fields =
        [j \in 1..Len(data_type.fields) |->
            Field(<<>>, AllNamesStripped(data_type.fields[j].data_type),
                  data_type.fields[j].nullable)]]

RECURSIVE OnlyListMapStruct(_)
\* every type of the tree that has child fields is a List, a Map or a Struct
OnlyListMapStruct(data_type) ==
    /\ data_type.fields # <<>> => data_type.k \in {"List", "Map", "Struct"}
    /\ \A j \in 1..Len(data_type.fields) : OnlyListMapStruct(data_type.fields[j].data_type)

\* C9 (Data-type round-trip), as claimed: read_data_type applied to the bytes of
\* write_data_type(t) returns, for every data type t, t with every field name at
\* every depth replaced by the empty name and nothing else changed, and takes
\* exactly the bytes written.
DataTypeRoundTrip ==
    ReadBack("data_type") =>
        /\ codec.read.err = ""
        /\ codec.read.val = AllNamesStripped(codec.value)
        /\ codec.read.pos = Len(sink)

\* C9 (Data-type round-trip), amended: the same for every data type t whose types
\* with child fields are Lists, Maps and Structs; below any other type with
\* child fields (a LargeList) the field names come back as they were, and
\* read_data_type takes exactly the bytes written for every t.
DataTypeRoundTripOfListMapStruct ==
    ReadBack("data_type") =>
        /\ codec.read.err = ""
        /\ codec.read.pos = Len(sink)
        /\ OnlyListMapStruct(codec.value) => codec.read.val = AllNamesStripped(codec.value)
        /\ codec.value.k = "LargeList" => codec.read.val = codec.value

\* a List of Structs with named fields was written and read back without its names
NamesStrippedAtDepth ==
    /\ ReadBack("data_type") /\ codec.read.err = ""
    /\ codec.value.k = "List" /\ codec.value.fields[1].data_type.k = "Struct"
    /\ codec.value.fields[1].data_type.fields[1].name # <<>>
    /\ codec.read.val.fields[1].data_type.fields[1].name = <<>>
    /\ codec.read.val # codec.value

\* ---- the schema of a decoded batch ----
\* the fields write_batch describes in a record: no name, the name-stripped data
\* type, the nullability flag
written_schema(b) ==
    [j \in 1..Len(b.schema) |->
        Field(<<>>, nameless_data_type(b.schema[j].data_type), b.schema[j].nullable)]

\* the batch has the column count, the row count and the fields of the record of b
SameSchema(got, b) ==
    /\ Len(got.columns) = Len(b.columns)
    /\ got.num_rows = b.num_rows
    /\ got.schema = written_schema(b)

\* C11 (Schema preservation): read_batch applied to the record of a batch returns
\* a batch with the column count and the row count written, whose i-th field has
\* the empty name, the i-th written (name-stripped) data type and the i-th
\* written nullability flag, for every column count and for 0-row batches.
SchemaPreservation ==
    \A i \in 1..Len(reads) :
        WholeRecord(i) => reads[i].err = "" /\ SameSchema(reads[i].val, records[i].batch)

\* what holds of the schema: every batch read_batch returns has the schema
\* written, and it returns one for every batch without a Timestamp that carries
\* a time zone
SchemaPreservationWithoutTimeZone ==
    \A i \in 1..Len(reads) :
        /\ (WholeRecord(i) /\ reads[i].err = "") => SameSchema(reads[i].val, records[i].batch)
        /\ (WholeRecord(i) /\ \A j \in 1..Len(records[i].batch.schema) :
                                  ~has_time_zone(records[i].batch.schema[j].data_type)) =>
                reads[i].err = ""

ReadOfMalformed ==
    /\ codec.kind \in {"malformed array", "malformed scalar", "malformed data_type",
                       "malformed batch"}
    /\ codec.stage = "read"

\* C13 (Malformed input is an error): read_batch, read_array, read_scalar and
\* read_data_type given bytes that are inconsistent with the declared type or
\* lengths (a truncated stream, a declared length larger than the remaining
\* bytes, a struct scalar whose child count differs from the number of fields, a
\* Map type whose entries type is not a struct) return an error; they neither
\* return a decoded value nor abort.
MalformedInputIsError ==
    ReadOfMalformed => codec.read.err \notin {"", "panic"}

\* what holds of malformed input: a stream that ends before the value does, and a
\* declared length or payload the bytes do not bear out, is an error
ShortInputIsError ==
    (ReadOfMalformed /\ codec.value.how \in {"truncated", "long length", "payload"}) =>
        codec.read.err \notin {"", "panic"}

\* ---- null and empty scalars ----
\* C14 (Null versus empty scalar): write_scalar encodes a Utf8 or Binary scalar
\* as one length value, 0 for null and the byte length plus one for a present
\* value, followed by exactly the bytes of a present value; a null scalar and a
\* present empty value have different encodings, and read_scalar returns them as
\* null and as the present empty value.
NullVersusEmptyScalar ==
    (codec.kind = "scalar" /\ codec.value.data_type.k \in {"Utf8", "Binary"}) =>
        /\ codec.stage # "input" =>
              /\ codec.written.err = ""
              /\ codec.written.out = IF codec.value.null THEN LenBytes(0)
                                     ELSE LenBytes(Len(codec.value.bytes) + 1) \o codec.value.bytes
              /\ codec.written.out # write_scalar([codec.value EXCEPT !.null = ~@, !.bytes = <<>>]).out
        /\ codec.stage = "read" =>
              /\ codec.read.err = ""
              /\ codec.read.val.data_type = codec.value.data_type
              /\ codec.read.val.null = codec.value.null
              /\ codec.read.val.bytes = codec.value.bytes
              /\ codec.read.pos = Len(sink)

\* a present empty string was written as the one byte 1 and read back present
EmptyStringReadBack ==
    /\ codec.kind = "scalar" /\ codec.stage = "read"
    /\ codec.value.data_type.k = "Utf8" /\ ~codec.value.null /\ codec.value.bytes = <<>>
    /\ codec.written.out = <<1>>
    /\ codec.read.err = "" /\ ~codec.read.val.null /\ codec.read.val.bytes = <<>>

\* ---- write_batch calls that run at the same time ----
\* C15 (Independence of concurrent calls): whatever the interleaving of the steps
\* of the calls, every call leaves in its sink the bytes, and reports the size
\* and the error, of the same call run alone; the counter of a call is held by no
\* other call and counts the bytes of its own writes only.
ConcurrentCallsIndependent ==
    /\ \A c \in DOMAIN calls :
          calls[c].pc = "done" =>
              LET alone == write_batch(calls[c].batch, calls[c].compress,
                                       IF calls[c].want_size THEN <<0>> ELSE <<>>) IN
              /\ calls[c].err = alone.err
              /\ calls[c].sink = alone.out
              /\ calls[c].size = IF calls[c].want_size THEN alone.uncompressed_size[1] ELSE 0
    /\ \A c \in DOMAIN calls :
          (calls[c].pc # "start" /\ calls[c].want_size) =>
              counters[calls[c].counter] = Len(calls[c].inner)
    /\ \A c, d \in DOMAIN calls :
          (c # d /\ calls[c].pc # "start" /\ calls[d].pc # "start") =>
              calls[c].counter # calls[d].counter

\* a call that started second has returned with its size while the call that
\* started first is in the middle of its writes, both counting
CallReturnedDuringAnother ==
    \E c, d \in DOMAIN calls :
        /\ calls[c].pc = "done" /\ calls[c].want_size /\ calls[c].err = "" /\ calls[c].size > 0
        /\ calls[d].pc = "write" /\ calls[d].want_size /\ calls[d].next > 2
        /\ calls[d].counter < calls[c].counter
        /\ counters[calls[d].counter] > 0

\* ---- the context of errors ----
\* the error of a call came up while it processed a type descriptor or a column
FailedInTypeOrColumn(call) ==
    call.err \notin {"", "panic"} /\ call.failure.step \in {"data type", "column"}

\* the context names the column index, the data type and the row count
NamesAll(context) ==
    context.column # <<>> /\ context.data_type # <<>> /\ context.num_rows # <<>>

\* C16 (Error context keeps the kind): an error that comes up while write_batch
\* or read_batch processes a type descriptor or a column reaches the caller with
\* the kind of the underlying failure, wrapped in a context that names the column
\* index, the data type and the row count of the failing column.
ErrorContextKeepsKind ==
    /\ \A i \in 1..Len(records) :
          FailedInTypeOrColumn(records[i]) =>
              /\ records[i].err \in {"NotImplemented", "IoError", "Execution", "ArrowError"}
              /\ Len(records[i].context) = 1 /\ NamesAll(records[i].context[1])
    /\ \A i \in 1..Len(reads) :
          FailedInTypeOrColumn(reads[i]) =>
              /\ reads[i].err \in {"NotImplemented", "IoError", "Execution", "ArrowError"}
              /\ Len(reads[i].context) = 1 /\ NamesAll(reads[i].context[1])

\* what holds of the context: the error keeps its kind under one context; the
\* context of a column write names the data type of the column, that of a column
\* read the data type and the row count, that of a type descriptor read nothing,
\* and none names the column index
ErrorContextAsWritten ==
    /\ \A i \in 1..Len(records) :
          FailedInTypeOrColumn(records[i]) =>
              /\ records[i].err = "NotImplemented"
              /\ records[i].context =
                    <<Context("batch_serde error writing column", <<>>,
                              <<records[i].batch.columns[records[i].failure.index].data_type>>,
                              <<>>)>>
    /\ \A i \in 1..Len(reads) :
          FailedInTypeOrColumn(reads[i]) =>
              /\ Len(reads[i].context) = 1
              /\ reads[i].context[1].column = <<>>
              /\ reads[i].failure.step = "data type" =>
                    /\ reads[i].context[1].data_type = <<>>
                    /\ reads[i].context[1].num_rows = <<>>
              /\ reads[i].failure.step = "column" =>
                    /\ reads[i].context[1].data_type # <<>>
                    /\ reads[i].context[1].num_rows # <<>>
                    /\ WholeRecord(i) =>
                          reads[i].context[1].num_rows = <<records[i].batch.num_rows>>

\* ---- the layout of a record ----
\* the items of the record of a batch as the claim lists them: the column count,
\* the row count, the type descriptor of every column, the nullability bytes,
\* the array of every column
LayoutItems(b) ==
    LET n == Len(b.columns) IN
    <<LenBytes(n), LenBytes(b.num_rows)>>
        \o [j \in 1..n |-> write_data_type(b.schema[j].data_type).out]
        \o <<[k \in 1..((n + 7) \div 8) |->
                BitsValue([j \in 1..n |-> b.schema[j].nullable], 8 * (k - 1),
                          Min(8, n - 8 * (k - 1)))]>>
        \o [j \in 1..n |-> write_array(b.columns[j]).out]

\* the s-th item of a record of n columns: the part of the record and the index
\* in it
LayoutItem(n, s) ==
    CASE s <= 2 -> [step |-> "header", index |-> s]
      [] s <= 2 + n -> [step |-> "data type", index |-> s - 2]
      [] s = 3 + n -> [step |-> "nullables", index |-> 1]
      [] OTHER -> [step |-> "column", index |-> s - 3 - n]

\* the first item that does not end within the first c bytes of the record
FirstItemBeyond(items, c) ==
    CHOOSE s \in 1..Len(items) :
        /\ Len(Concat(SubSeq(items, 1, s))) > c
        /\ \A x \in 1..(s - 1) : Len(Concat(SubSeq(items, 1, x))) <= c

\* C17 (Record layout order): the record of write_batch is, in this order and
\* with nothing in between, the column count, the row count, the type
\* descriptors in column order, ceil(column count / 8) nullability bytes and the
\* arrays in column order; read_batch consumes the same items in the same order
\* (an input that ends within an item makes it fail at that item, an input that
\* holds the record never runs out) and reads every column with the row count
\* of the header.
RecordLayoutOrder ==
    /\ \A i \in 1..Len(records) :
          records[i].err = "" =>
              read_batch_input(SubSeq(sink, 1, records[i].end), records[i].start, compress)
                  = Concat(LayoutItems(records[i].batch))
    /\ \A i \in 1..Len(reads) :
          (records[i].err = "" /\ reads[i].from = records[i].start) =>
              LET items == LayoutItems(records[i].batch)
                  c == Len(read_batch_input(SubSeq(sink, 1, reads[i].limit),
                                            reads[i].from, compress)) IN
              IF c < Len(Concat(items))
              THEN /\ reads[i].err # ""
                   /\ reads[i].failure =
                         LayoutItem(Len(records[i].batch.columns), FirstItemBeyond(items, c))
              ELSE /\ reads[i].err # "IoError"
                   /\ reads[i].err = "" =>
                         /\ reads[i].val.num_rows = records[i].batch.num_rows
                         /\ \A j \in 1..Len(reads[i].val.columns) :
                               reads[i].val.columns[j].len = records[i].batch.num_rows

\* the record of a batch of more than 8 columns with rows was cut inside its
\* nullability bytes, and read_batch failed there
ReadCutInNullabilityBytes ==
    \E i \in 1..Len(reads) :
        /\ records[i].err = "" /\ reads[i].from = records[i].start
        /\ Len(records[i].batch.columns) > 8 /\ records[i].batch.num_rows > 0
        /\ reads[i].failure.step = "nullables"
        /\ reads[i].err = "IoError"

\* C18: write_bits_buffer writes ceil(bits_len / 8) bytes (none for no bits)
\* whose bit i is bit bits_offset + i of the source buffer, and the buffer
\* read_bits_buffer reads back with the same length has those bits from bit 0.
BitmapPacking ==
    codec.kind = "bits" =>
        LET arg == codec.value
            n == arg.bits_len IN
        /\ codec.stage \in {"written", "read"} =>
              /\ codec.written.err = ""
              /\ Len(codec.written.out) * 8 >= n
              /\ Len(codec.written.out) * 8 < n + 8
              /\ n = 0 => sink = Prefix
              /\ sink = Prefix \o codec.written.out
              /\ \A i \in 0..(n - 1) :
                    get_bit(codec.written.out, i) = get_bit(arg.buffer, arg.bits_offset + i)
        /\ codec.stage = "read" =>
              /\ codec.read.err = ""
              /\ codec.read.pos = Len(sink)
              /\ \A i \in 0..(n - 1) :
                    get_bit(codec.read.val, i) = get_bit(arg.buffer, arg.bits_offset + i)

\* C18 witness: nine bits that start at bit 3 of a two-byte buffer were written
\* as two bytes and read back
BitsAcrossBytesReadBack ==
    /\ codec.kind = "bits"
    /\ codec.stage = "read"
    /\ codec.value.buffer = <<165, 90>>
    /\ codec.value.bits_offset = 3
    /\ codec.value.bits_len = 9
    /\ Len(codec.written.out) = 2
    /\ codec.read.val = codec.written.out

\* the running sum of the lengths of the logical rows of an array, from 0
RowOffsets(array) ==
    [i \in 1..(array.len + 1) |-> value_offsets(array)[i] - value_offsets(array)[1]]

\* the number of elements a decoded array holds for its rows: the bytes of a
\* Utf8 or Binary array, the values of a List, the keys and the values of a Map
ElementCounts(array) ==
    IF array.data_type.k \in {"Utf8", "Binary"} THEN {Len(array.values)}
    ELSE {array.children[j].len : j \in 1..Len(array.children)}

\* the bytes the writer leaves after the validity flag and bitmap
AfterNulls(array, out) == SubSeq(out, Len(write_nulls(array).out) + 1, Len(out))

\* the elements of the logical rows: what follows the lengths in the output
RowElements(array) ==
    LET from == value_offsets(array)[1]
        n == RowOffsets(array)[array.len + 1] IN
    CASE array.data_type.k \in {"Utf8", "Binary"} -> Bytes(array.values, from, n)
      [] array.data_type.k = "List" -> write_array(slice(array.children[1], from, n)).out
      [] array.data_type.k = "Map" ->
            write_array(slice(array.children[1], from, n)).out
                \o write_array(slice(array.children[2], from, n)).out

\* C19: the writers of Utf8, Binary, List and Map arrays emit one length per row
\* and then the elements of exactly those rows; the readers rebuild num_rows + 1
\* offsets as the running sum of the lengths from 0 and read as many elements as
\* the last offset says.
OffsetReconstruction ==
    (/\ codec.kind = "array"
     /\ codec.value.data_type.k \in {"Utf8", "Binary", "List", "Map"}
     /\ codec.stage \in {"written", "read"}
     /\ codec.written.err = "") =>
        LET array == codec.value
            offsets == RowOffsets(array) IN
        /\ AfterNulls(array, codec.written.out) =
                Concat([i \in 1..array.len |-> LenBytes(offsets[i + 1] - offsets[i])])
                    \o RowElements(array)
        /\ codec.stage = "read" =>
              /\ codec.read.err \in {"", "ArrowError"}
              /\ codec.read.pos = Len(sink)
              /\ codec.read.err = "" =>
                    /\ Len(codec.read.val.offsets) = array.len + 1
                    /\ codec.read.val.offsets[1] = 0
                    /\ codec.read.val.offsets = offsets
                    /\ ElementCounts(codec.read.val) = {offsets[array.len + 1]}

\* C19 witness: a List array that starts after the first row of its buffers and
\* has rows of different lengths was written and read back
OffsetListReadBack ==
    /\ codec.kind = "array"
    /\ codec.stage = "read"
    /\ codec.read.err = ""
    /\ codec.value.data_type.k = "List"
    /\ codec.value.len = 2
    /\ value_offsets(codec.value)[1] > 0
    /\ codec.read.val.offsets[2] # codec.read.val.offsets[3] - codec.read.val.offsets[2]
    /\ codec.read.val.offsets[2] > 0
    /\ codec.read.val.children[1].len = codec.read.val.offsets[3]

RECURSIVE HasType(_, _)
\* the array has the data type and, under a List, Map or Struct, its child arrays
\* have the data types of the fields
HasType(array, data_type) ==
    /\ array.data_type = data_type
    /\ LET fields == IF data_type.k = "Map" THEN data_type.fields[1].data_type.fields
                     ELSE data_type.fields IN
       /\ Len(array.children) = Len(fields)
       /\ \A j \in 1..Len(fields) : HasType(array.children[j], fields[j].data_type)

\* the read_array calls of the codec runs: the data type and the row count asked
\* for, and the result
ArrayReads ==
    IF codec.stage # "read" THEN {}
    ELSE IF codec.kind = "array"
         THEN {[data_type |-> codec.value.data_type, num_rows |-> codec.value.len,
                read |-> codec.read]}
    ELSE IF codec.kind = "malformed array"
         THEN {[data_type |-> codec.value.data_type, num_rows |-> codec.value.num_rows,
                read |-> codec.read]}
    ELSE {}

\* C20 (Decoded type matches declared type): the array a successful
\* read_array(input, T, n) returns has n rows and the data type T, the time zone
\* of a Timestamp, the precision and scale of a Decimal128 and the child types
\* of a List, Map or Struct included.
DecodedTypeMatchesDeclared ==
    \A r \in ArrayReads :
        r.read.err = "" =>
            r.read.val.len = r.num_rows /\ HasType(r.read.val, r.data_type)

\* what holds of the decoded type: it is the declared type when no Timestamp in
\* it carries a time zone, and the row count is the one asked for in any case
DecodedTypeMatchesDeclaredWithoutTimeZone ==
    \A r \in ArrayReads :
        r.read.err = "" =>
            /\ r.read.val.len = r.num_rows
            /\ ~has_time_zone(r.data_type) => HasType(r.read.val, r.data_type)

\* C21 (Size output untouched on failure): the caller's size variable changes
\* only in a call that asked for the size and wrote the header, the descriptors,
\* the nullability bytes and every column without error; a call that returns an
\* error, and a call that asks for no size, leave the variable as it was.
SizeUntouchedOnFailure ==
    \A i \in 1..Len(records) :
        /\ records[i].err # "" => records[i].size = records[i].size_before
        /\ ~records[i].want_size => records[i].size = records[i].size_before
        /\ records[i].size # records[i].size_before =>
              /\ records[i].want_size
              /\ records[i].failure.step = ""
              /\ records[i].size = Len(Concat(LayoutItems(records[i].batch)))
        /\ i = Len(records) => uncompressed_size = records[i].size

\* C21 witness: a call that asked for the size failed in a column after it had
\* written bytes, and the size variable holds what it held before
SizeKeptByFailedCall ==
    \E i \in 1..Len(records) :
        /\ records[i].want_size
        /\ records[i].err # ""
        /\ records[i].failure.step = "column"
        /\ records[i].end > records[i].start
        /\ records[i].size_before = 1000
        /\ uncompressed_size = 1000

\* the repartitioners an execute call created
CreatedBy(call) == SubSeq(repartitioners, call.created_from + 1, call.created_to)

\* the MemManager registrations an execute call made
RegisteredBy(call) == SubSeq(consumers, call.registered_from + 1, call.registered_to)

\* C22 (Repartitioner selection): execute builds the single-partition
\* repartitioner for a partitioning of partition count 1 of any kind, the sort
\* repartitioner for a Hash partitioning of any other count, which alone it
\* registers as a memory consumer, and panics for every other partitioning; a
\* call that does not panic builds one repartitioner, on the data and index
\* files of the operator.
RepartitionerSelection ==
    \A i \in 1..Len(exec_calls) :
        exec_calls[i].op = "execute" =>
            LET call == exec_calls[i]
                p == call.on.partitioning
                made == CreatedBy(call) IN
            /\ p.count = 1 =>
                  /\ call.outcome # "panic"
                  /\ Len(made) = 1 /\ made[1].kind = "single"
                  /\ RegisteredBy(call) = <<>>
            /\ (p.kind = "Hash" /\ p.count # 1) =>
                  /\ call.outcome # "panic"
                  /\ Len(made) = 1 /\ made[1].kind = "sort"
                  /\ RegisteredBy(call) = <<call.created_to>>
            /\ (p.kind # "Hash" /\ p.count # 1) =>
                  /\ call.outcome = "panic"
                  /\ made = <<>>
                  /\ RegisteredBy(call) = <<>>
            /\ \A j \in 1..Len(made) :
                  /\ made[j].output_data_file = call.on.output_data_file
                  /\ made[j].output_index_file = call.on.output_index_file
            /\ call.stream # <<>> => call.stream = <<call.created_to>>

\* C22 witness: execute on a Hash partitioning of partition count 1 returned a
\* stream over a single-partition repartitioner that no MemManager knows
HashOfOnePartitionExecuted ==
    \E i \in 1..Len(exec_calls) :
        /\ exec_calls[i].op = "execute"
        /\ exec_calls[i].on.partitioning = Partitioning("Hash", 1)
        /\ exec_calls[i].outcome = "Ok"
        /\ CreatedBy(exec_calls[i]) # <<>>
        /\ CreatedBy(exec_calls[i])[1].kind = "single"
        /\ consumers = <<>>

====
